---- MODULE Spec2Model ----
(***************************************************************************)
(* The session-and-reconciliation engine of automattermostatus:            *)
(*   - State / Cache             (src/state.rs)                            *)
(*   - LoggedSession::relogin     (src/mattermost/session.rs)               *)
(*   - MMSendable::send_at        (src/mattermost/status.rs)                *)
(*   - MMCustomStatus::expires_at (src/mattermost/status.rs)                *)
(*   - parse_from_hmstr           (src/utils.rs)                            *)
(*   - the polling loop, process_one_iteration, create_session             *)
(*                                (src/lib.rs)                              *)
(*   - the login functions        (src/mattermost/session.rs)               *)
(*   - ShutdownSignal             (src/shutdown.rs, src/service.rs)         *)
(*   - the state file as text     (src/state.rs, serde_json)                *)
(* One action is one call of State::update_status; the clock, the server's *)
(* answers and the outcome of the file write are the environment: an       *)
(* operation is an operator that yields the set of its possible outcomes.  *)
(***************************************************************************)
EXTENDS Integers, Sequences, FiniteSets, TLC

VARIABLES
    now,        \* the wall clock, Utc::now().timestamp()
    state,      \* the in-memory State {location, lastchange_timestamp}
    cache,      \* the content of the state file at Cache.path
    session,    \* the LoggedSession
    delay,      \* delay_between_polling (config.schedule.delay), in seconds
    pc,         \* "idle": between two calls; "returned": update_status has just returned
    call,       \* what the update_status call that has just returned did: its
                \* locals, its wire traffic, the result of its send (sres) and
                \* its own result (res)
    prev,       \* what is remembered of the poll cycle before the current one:
                \* its candidate and how its push ended (kept only in SpecLife)
    mmstatus,   \* the MMCustomStatus of the wifi in sight, the object kept in
                \* status_dict from one iteration to the next
    local,      \* the local wall clock, Local::now().naive_local()
    expires_cfg,\* config.schedule.expires_at
    sent,       \* the body of the custom status the iteration that has just
                \* returned put on the wire, and when (used only in SpecExpiry)
    signal,     \* the ShutdownSignal handles alive and the AtomicBool each one
                \* points to (shutdown.rs)
    sleeper,    \* the frame of the sleep_or_stop call in progress (shutdown.rs)
    loop,       \* the polling loop: the result of the last process_one_iteration
                \* and how the loop ended, if it did (lib.rs)
    login,      \* the session object create_session logs in with, the server's
                \* answer to its last login and the result (session.rs)
    status_dict \* the wifi substrings status_dict holds a custom status for,
                \* "" being the one of the off time (lib.rs)

vars == <<now, state, cache, session, delay, pc, call, prev,
          mmstatus, local, expires_cfg, sent, signal, sleeper, loop, login,
          status_dict>>

\* the variables of the payload and its expiry
payloadVars == <<mmstatus, local, expires_cfg, sent>>


---------------------------------------------------------------------------
(* Bounds of the model *)

\* the server issues tokens 0..MaxToken
MaxToken == 1
\* seconds that may pass between the two clock reads of one update_status call
MaxSendSecs == 1
\* the last instant of a run of the regular polling loop
RegularHorizon == 3720
\* the local calendar days are 0..MaxDay
MaxDay == 1
\* the last instant of a run of the polling loop whose pushes may fail
SteadyHorizon == 4800
\* the wifi substrings written to the state file have at most MaxSsidLen
\* characters
MaxSsidLen == 2
\* at most MaxSignals ShutdownSignal::new() and MaxHandles handles in all
MaxSignals == 2
MaxHandles == 4
\* create_session sleeps at most MaxLoginSleeps times between login attempts
MaxLoginSleeps == 2

Tokens == 0..MaxToken

\* Instants the clock may show.  They put every branch of the elapsed-time
\* test on both sides of its limits for the poll intervals below:
\* elapsed 0, 50, 120 = 2*60, 121, 3600, 3601 (and the differences of these).
Times == {0, 50, 120, 121, 3600, 3601}

\* delay_between_polling: 0 (single shot), 60 (the default), 1800 (2*delay = 3600)
PollIntervals == {0, 60, 1800}

\* wifi substrings of the configured statuses; "" is the off-time entry
Ssids == {"", "home"}

---------------------------------------------------------------------------
(* state.rs: Location, State, Cache *)

MAX_SECS_BEFORE_FORCE_UPDATE == 60 * 60

Unknown == [tag |-> "Unknown", ssid |-> ""]
Known(s) == [tag |-> "Known", ssid |-> s]

KnownLocations == {Known(s) : s \in Ssids}
Locations == KnownLocations \cup {Unknown}

MkState(l, t) == [location |-> l, lastchange_timestamp |-> t]

\* The state file: absent, not decodable, not readable, or the JSON of a State.
FileAbsent == [kind |-> "absent", location |-> Unknown, lastchange_timestamp |-> 0]
FileCorrupt == [kind |-> "corrupt", location |-> Unknown, lastchange_timestamp |-> 0]
FileUnreadable == [kind |-> "unreadable", location |-> Unknown, lastchange_timestamp |-> 0]
FileJson(s) ==
    [kind |-> "json", location |-> s.location, lastchange_timestamp |-> s.lastchange_timestamp]

\* State::new
StateNew(file) ==
    IF file.kind = "json"
    THEN MkState(file.location, file.lastchange_timestamp)
    ELSE MkState(Unknown, 0)

---------------------------------------------------------------------------
(* Results *)

Ok(v) == [ok |-> TRUE, err |-> "none", code |-> v]
Err(kind, v) == [ok |-> FALSE, err |-> kind, code |-> v]
\* in place of the result of a send that was not made
NotSent == [ok |-> FALSE, err |-> "not sent", code |-> 0]

\* mutant: a state file that is there but does not decode is an error
state_new_rejects_garbage(file) ==
    IF file.kind = "corrupt"
    THEN [res |-> Err("Unable to deserialize state file", 0), state |-> MkState(Unknown, 0)]
    ELSE [res |-> Ok(0), state |-> StateNew(file)]

\* State::new with its Result: it ends in Ok(res) on every path
state_new(file) == [res |-> Ok(0), state |-> StateNew(file)]

---------------------------------------------------------------------------
(* The server's answers *)

Http(c) == [kind |-> "status", code |-> c, token |-> -1]
Transport == [kind |-> "io", code |-> 0, token |-> -1]
LoginOk(t) == [kind |-> "status", code |-> 200, token |-> t]

\* answers to the PUT of a status: accepted, authentication rejected, another
\* rejection, no answer at all
Responses == {Http(200), Http(401), Http(500), Transport}
\* answers to the POST of the credentials: with a Token header, without one,
\* rejected, unreachable
LoginResponses == {LoginOk(t) : t \in Tokens} \cup {Http(200), Http(401), Transport}

\* ureq reports a transport failure and every status >= 400 as Err
RespIsErr(r) == r.kind = "io" \/ r.code >= 400

\* one request on the wire and its answer; token is the bearer token sent
\* (-1: none)
Exchange(m, p, t, r) == [method |-> m, path |-> p, token |-> t, resp |-> r]

---------------------------------------------------------------------------
(* mattermost/session.rs: LoggedSession *)

NoCred == "none"

LoggedSession(tok, u, p) ==
    [base_uri |-> "https://mm", token |-> tok, user_id |-> "user_id", user |-> u, password |-> p]

LoginPath == "/api/v4/users/login"

\* mutant: the login request is made whether or not the session holds
\* credentials
relogin_always_posts(self) ==
    {LET x == Exchange("POST", LoginPath, -1, lr) IN
     IF RespIsErr(lr)
     THEN [res |-> Err("ureq", lr.code), session |-> self, wire |-> <<x>>]
     ELSE IF lr.token = -1
     THEN [res |-> Err("Login authentication failed", lr.code),
           session |-> self, wire |-> <<x>>]
     ELSE [res |-> Ok(0), session |-> [self EXCEPT !.token = lr.token], wire |-> <<x>>]
     : lr \in LoginResponses}

\* mutant: the old token is dropped before the login request is made
relogin_drops_token_first(self) ==
    IF self.password = NoCred \/ self.user = NoCred
    THEN {[res |-> Ok(0), session |-> self, wire |-> <<>>]}
    ELSE {LET x == Exchange("POST", LoginPath, -1, lr) IN
          IF RespIsErr(lr)
          THEN [res |-> Err("ureq", lr.code), session |-> [self EXCEPT !.token = -1],
                wire |-> <<x>>]
          ELSE IF lr.token = -1
          THEN [res |-> Err("Login authentication failed", lr.code),
                session |-> [self EXCEPT !.token = -1], wire |-> <<x>>]
          ELSE [res |-> Ok(0), session |-> [self EXCEPT !.token = lr.token], wire |-> <<x>>]
          : lr \in LoginResponses}

\* LoggedSession::relogin: the set of its outcomes, one per answer of the server
relogin(self) ==
    IF self.password = NoCred \/ self.user = NoCred
    THEN \* No login/password, we bail out without doing anything.
         {[res |-> Ok(0), session |-> self, wire |-> <<>>]}
    ELSE {LET x == Exchange("POST", LoginPath, -1, lr) IN
          IF RespIsErr(lr)
          THEN [res |-> Err("ureq", lr.code), session |-> self, wire |-> <<x>>]
          ELSE IF lr.token = -1
          THEN [res |-> Err("Login authentication failed", lr.code),
                session |-> self, wire |-> <<x>>]
          ELSE [res |-> Ok(0), session |-> [self EXCEPT !.token = lr.token], wire |-> <<x>>]
          : lr \in LoginResponses}

---------------------------------------------------------------------------
(* mattermost/status.rs: MMSendable, MMCustomStatus *)

CustomStatusPath == "/api/v4/users/me/status/custom"

\* MMSendable::_send_at_once: one PUT carrying the session's token
send_at_once(sess, api_path) ==
    {LET x == Exchange("PUT", api_path, sess.token, r) IN
     IF r.kind = "io" THEN [res |-> Err("Io", 0), wire |-> <<x>>]
     ELSE IF RespIsErr(r) THEN [res |-> Err("StatusCode", r.code), wire |-> <<x>>]
     ELSE [res |-> Ok(r.code), wire |-> <<x>>]
     : r \in Responses}

\* .map_err(MMSError::HTTPRequestError)
map_err_http(res) == IF res.ok THEN res ELSE Err("HTTPRequestError", res.code)

\* mutant: a 401 on the resend triggers another relogin and a third send
send_at_retry_again(sess, api_path) ==
    UNION {
        IF first.res.ok
        THEN {[res |-> first.res, session |-> sess, wire |-> first.wire]}
        ELSE IF first.res.err = "StatusCode" /\ first.res.code = 401
        THEN UNION {
                 IF ~rl.res.ok
                 THEN {[res |-> Err("LoginError", rl.res.code), session |-> rl.session,
                        wire |-> first.wire \o rl.wire]}
                 ELSE UNION {
                     IF second.res.err = "StatusCode" /\ second.res.code = 401
                     THEN UNION {
                         IF ~rl2.res.ok
                         THEN {[res |-> Err("LoginError", rl2.res.code),
                                session |-> rl2.session,
                                wire |-> first.wire \o rl.wire \o second.wire \o rl2.wire]}
                         ELSE {[res |-> map_err_http(third.res), session |-> rl2.session,
                                wire |-> first.wire \o rl.wire \o second.wire
                                         \o rl2.wire \o third.wire]
                               : third \in send_at_once(rl2.session, api_path)}
                         : rl2 \in relogin(rl.session)}
                     ELSE {[res |-> map_err_http(second.res), session |-> rl.session,
                            wire |-> first.wire \o rl.wire \o second.wire]}
                     : second \in send_at_once(rl.session, api_path)}
                 : rl \in relogin(sess)}
        ELSE {[res |-> map_err_http(first.res), session |-> sess, wire |-> first.wire]}
        : first \in send_at_once(sess, api_path)}

\* mutant: after the relogin the payload is not sent again, the first 401 is returned
send_at_no_resend(sess, api_path) ==
    UNION {
        IF first.res.ok
        THEN {[res |-> first.res, session |-> sess, wire |-> first.wire]}
        ELSE IF first.res.err = "StatusCode" /\ first.res.code = 401
        THEN {IF ~rl.res.ok
              THEN [res |-> Err("LoginError", rl.res.code), session |-> rl.session,
                    wire |-> first.wire \o rl.wire]
              ELSE [res |-> map_err_http(first.res), session |-> rl.session,
                    wire |-> first.wire \o rl.wire]
              : rl \in relogin(sess)}
        ELSE {[res |-> map_err_http(first.res), session |-> sess, wire |-> first.wire]}
        : first \in send_at_once(sess, api_path)}

\* mutant: a failed relogin is swallowed: the first 401 is what the caller gets
send_at_hide_login_error(sess, api_path) ==
    UNION {
        IF first.res.ok
        THEN {[res |-> first.res, session |-> sess, wire |-> first.wire]}
        ELSE IF first.res.err = "StatusCode" /\ first.res.code = 401
        THEN UNION {
                 IF ~rl.res.ok
                 THEN {[res |-> map_err_http(first.res), session |-> rl.session,
                        wire |-> first.wire \o rl.wire]}
                 ELSE {[res |-> map_err_http(second.res), session |-> rl.session,
                        wire |-> first.wire \o rl.wire \o second.wire]
                       : second \in send_at_once(rl.session, api_path)}
                 : rl \in relogin(sess)}
        ELSE {[res |-> map_err_http(first.res), session |-> sess, wire |-> first.wire]}
        : first \in send_at_once(sess, api_path)}

\* mutant: every failed first send, not only a 401, goes through the relogin
\* and the resend
send_at_relogin_on_any_error(sess, api_path) ==
    UNION {
        IF first.res.ok
        THEN {[res |-> first.res, session |-> sess, wire |-> first.wire]}
        ELSE UNION {
                 IF ~rl.res.ok
                 THEN {[res |-> Err("LoginError", rl.res.code), session |-> rl.session,
                        wire |-> first.wire \o rl.wire]}
                 ELSE {[res |-> map_err_http(second.res), session |-> rl.session,
                        wire |-> first.wire \o rl.wire \o second.wire]
                       : second \in send_at_once(rl.session, api_path)}
                 : rl \in relogin(sess)}
        : first \in send_at_once(sess, api_path)}

\* mutant: the resend is made with the session as it was before the relogin
send_at_resend_old_token(sess, api_path) ==
    UNION {
        IF first.res.ok
        THEN {[res |-> first.res, session |-> sess, wire |-> first.wire]}
        ELSE IF first.res.err = "StatusCode" /\ first.res.code = 401
        THEN UNION {
                 IF ~rl.res.ok
                 THEN {[res |-> Err("LoginError", rl.res.code), session |-> rl.session,
                        wire |-> first.wire \o rl.wire]}
                 ELSE {[res |-> map_err_http(second.res), session |-> rl.session,
                        wire |-> first.wire \o rl.wire \o second.wire]
                       : second \in send_at_once(sess, api_path)}
                 : rl \in relogin(sess)}
        ELSE {[res |-> map_err_http(first.res), session |-> sess, wire |-> first.wire]}
        : first \in send_at_once(sess, api_path)}

\* mutant: the payload is sent again, but the first 401 is what is returned
send_at_return_first_answer(sess, api_path) ==
    UNION {
        IF first.res.ok
        THEN {[res |-> first.res, session |-> sess, wire |-> first.wire]}
        ELSE IF first.res.err = "StatusCode" /\ first.res.code = 401
        THEN UNION {
                 IF ~rl.res.ok
                 THEN {[res |-> Err("LoginError", rl.res.code), session |-> rl.session,
                        wire |-> first.wire \o rl.wire]}
                 ELSE {[res |-> map_err_http(first.res), session |-> rl.session,
                        wire |-> first.wire \o rl.wire \o second.wire]
                       : second \in send_at_once(rl.session, api_path)}
                 : rl \in relogin(sess)}
        ELSE {[res |-> map_err_http(first.res), session |-> sess, wire |-> first.wire]}
        : first \in send_at_once(sess, api_path)}

\* MMSendable::send_at: the set of its outcomes over the answers of the server.
\* (The to_json()? of the debug line serialises two strings and two options
\* and has no failing case.)
send_at(sess, api_path) ==
    UNION {
        IF first.res.ok
        THEN {[res |-> first.res, session |-> sess, wire |-> first.wire]}
        ELSE IF first.res.err = "StatusCode" /\ first.res.code = 401
        THEN \* relogin and retry
             UNION {
                 IF ~rl.res.ok
                 THEN {[res |-> Err("LoginError", rl.res.code), session |-> rl.session,
                        wire |-> first.wire \o rl.wire]}
                 ELSE {[res |-> map_err_http(second.res), session |-> rl.session,
                        wire |-> first.wire \o rl.wire \o second.wire]
                       : second \in send_at_once(rl.session, api_path)}
                 : rl \in relogin(sess)}
        ELSE {[res |-> map_err_http(first.res), session |-> sess, wire |-> first.wire]}
        : first \in send_at_once(sess, api_path)}

\* MMCustomStatus::send
custom_status_send(sess) == send_at(sess, CustomStatusPath)

---------------------------------------------------------------------------
(* state.rs: State::set_location, State::update_status *)

\* fs::write: done, refused before the file is touched, or failed after the
\* file was truncated
WriteOutcomes == {"ok", "denied", "truncated"}

\* the clock when it is read again, later in the same call
LaterTimes(t) == {u \in Times \cup {t} : u >= t /\ u - t <= MaxSendSecs}

\* mutant: the record takes the new location but keeps its old timestamp
set_location_keep_timestamp(self, location, file, t) ==
    {LET s == MkState(location, self.lastchange_timestamp) IN
     IF w = "ok" THEN [res |-> Ok(0), state |-> s, cache |-> FileJson(s), now |-> u]
     ELSE IF w = "denied"
     THEN [res |-> Err("Writing to cache file", 0), state |-> s, cache |-> file, now |-> u]
     ELSE [res |-> Err("Writing to cache file", 0), state |-> s, cache |-> FileCorrupt, now |-> u]
     : u \in LaterTimes(t), w \in WriteOutcomes}

\* State::set_location, called when the clock last showed t
set_location(self, location, file, t) ==
    {LET s == MkState(location, u) IN
     IF w = "ok" THEN [res |-> Ok(0), state |-> s, cache |-> FileJson(s), now |-> u]
     ELSE IF w = "denied"
     THEN [res |-> Err("Writing to cache file", 0), state |-> s, cache |-> file, now |-> u]
     ELSE [res |-> Err("Writing to cache file", 0), state |-> s, cache |-> FileCorrupt, now |-> u]
     : u \in LaterTimes(t), w \in WriteOutcomes}

\* mutant: a negative difference is taken by its size
elapsed_secs_abs(t, lastchange) == IF t - lastchange < 0 THEN lastchange - t ELSE t - lastchange

\* (Utc::now().timestamp() - self.lastchange_timestamp).try_into().unwrap_or(0)
elapsed_secs(t, lastchange) == IF t - lastchange < 0 THEN 0 ELSE t - lastchange

\* mutant: elapsed = 2*delay already counts as quiet
no_update_needed_incl_low(delay_between_polling, elapsed_sec) ==
    /\ delay_between_polling * 2 <= elapsed_sec
    /\ elapsed_sec <= MAX_SECS_BEFORE_FORCE_UPDATE

\* mutant: no force update, the quiet window never ends
no_update_needed_no_limit(delay_between_polling, elapsed_sec) ==
    delay_between_polling * 2 < elapsed_sec

\* mutant: the force-update limit itself is no longer inside the quiet window
no_update_needed_excl_limit(delay_between_polling, elapsed_sec) ==
    /\ delay_between_polling * 2 < elapsed_sec
    /\ elapsed_sec < MAX_SECS_BEFORE_FORCE_UPDATE

\* the test of lines 102-103: no change, no update to mattermost status
no_update_needed(delay_between_polling, elapsed_sec) ==
    /\ delay_between_polling * 2 < elapsed_sec
    /\ elapsed_sec <= MAX_SECS_BEFORE_FORCE_UPDATE

\* mutant: the early return for Unknown is gone
is_unknown_never(current_location) == FALSE

\* the early return of line 94
is_unknown(current_location) == current_location = Unknown

\* mutant: the location is set before the status is sent, so it is set
\* whether the send succeeds or not
push_and_store_set_first(self, current_location, status, sess, file, t) ==
    UNION {
        {[res |-> IF s.res.ok THEN st.res ELSE s.res, state |-> st.state, cache |-> st.cache,
          session |-> s.session, wire |-> s.wire, sres |-> s.res, sent |-> s.res.ok,
          now |-> st.now]
         : s \in custom_status_send(sess)}
        : st \in set_location(self, current_location, file, t)}

\* mutant: a failed send still refreshes the timestamp of the record
push_and_store_touch(self, current_location, status, sess, file, t) ==
    UNION {
        IF ~s.res.ok
        THEN {[res |-> s.res, state |-> [self EXCEPT !.lastchange_timestamp = t],
               cache |-> file, session |-> s.session, wire |-> s.wire, sres |-> s.res,
               sent |-> FALSE, now |-> t]}
        ELSE {[res |-> st.res, state |-> st.state, cache |-> st.cache,
               session |-> s.session, wire |-> s.wire, sres |-> s.res, sent |-> TRUE,
               now |-> st.now]
              : st \in set_location(self, current_location, file, t)}
        : s \in custom_status_send(sess)}

\* mutant: a failed send still records the candidate in memory
push_and_store_remember_failed(self, current_location, status, sess, file, t) ==
    UNION {
        IF ~s.res.ok
        THEN {[res |-> s.res, state |-> [self EXCEPT !.location = current_location],
               cache |-> file, session |-> s.session, wire |-> s.wire, sres |-> s.res,
               sent |-> FALSE, now |-> t]}
        ELSE {[res |-> st.res, state |-> st.state, cache |-> st.cache,
               session |-> s.session, wire |-> s.wire, sres |-> s.res, sent |-> TRUE,
               now |-> st.now]
              : st \in set_location(self, current_location, file, t)}
        : s \in custom_status_send(sess)}

\* lines 112-116: send the status, then set the location (only if setting
\* the mattermost status succeeded).  status is "some" or "none", the Option
\* of the caller.
push_and_store(self, current_location, status, sess, file, t) ==
    IF status = "none"
    THEN {[res |-> Err("panic", 0), state |-> self, cache |-> file, session |-> sess,
           wire |-> <<>>, sres |-> NotSent, sent |-> FALSE, now |-> t]}
    ELSE UNION {
        IF ~s.res.ok
        THEN {[res |-> s.res, state |-> self, cache |-> file, session |-> s.session,
               wire |-> s.wire, sres |-> s.res, sent |-> FALSE, now |-> t]}
        ELSE {[res |-> st.res, state |-> st.state, cache |-> st.cache,
               session |-> s.session, wire |-> s.wire, sres |-> s.res, sent |-> TRUE,
               now |-> st.now]
              : st \in set_location(self, current_location, file, t)}
        : s \in custom_status_send(sess)}

\* mutant: the record is written to the state file before the status is sent
push_then_stop_record_first(self, current_location, status, sess, file, t) ==
    IF status = "none"
    THEN {}
    ELSE {[res |-> Err("stopped", 0), state |-> self,
           cache |-> FileJson(MkState(current_location, t)), session |-> s.session,
           wire |-> s.wire, sres |-> s.res, sent |-> TRUE, now |-> t]
          : s \in {x \in custom_status_send(sess) : x.res.ok}}

\* lines 112-116 cut short: the process stops when the send has returned Ok
\* and set_location has not run yet.  Nothing was written; what is in memory
\* is lost with the process.
push_then_stop(self, current_location, status, sess, file, t) ==
    IF status = "none"
    THEN {}
    ELSE {[res |-> Err("stopped", 0), state |-> self, cache |-> file, session |-> s.session,
           wire |-> s.wire, sres |-> s.res, sent |-> TRUE, now |-> t]
          : s \in {x \in custom_status_send(sess) : x.res.ok}}

\* mutant: the elapsed-time test is applied whether or not the location changed
update_status_any_location(self, current_location, status, sess, file, delay_between_polling, t) ==
    LET same == current_location = self.location
        elapsed_sec == elapsed_secs(t, self.lastchange_timestamp)
        quiet == [res |-> Ok(0), state |-> self, cache |-> file, session |-> sess,
                  wire |-> <<>>, sres |-> NotSent, sent |-> FALSE, now |-> t]
    IN
    IF is_unknown(current_location)
    THEN {quiet @@ [decision |-> "noop", same |-> same, elapsed_sec |-> -1]}
    ELSE IF no_update_needed(delay_between_polling, elapsed_sec)
    THEN {quiet @@ [decision |-> "skip", same |-> same, elapsed_sec |-> elapsed_sec]}
    ELSE {r @@ [decision |-> "push", same |-> same, elapsed_sec |-> elapsed_sec]
          : r \in push_and_store(self, current_location, status, sess, file, t)}

\* State::update_status called when the clock shows t: the set of its outcomes
update_status(self, current_location, status, sess, file, delay_between_polling, t) ==
    LET same == current_location = self.location
        elapsed_sec == IF same THEN elapsed_secs(t, self.lastchange_timestamp) ELSE -1
        quiet == [res |-> Ok(0), state |-> self, cache |-> file, session |-> sess,
                  wire |-> <<>>, sres |-> NotSent, sent |-> FALSE, now |-> t]
    IN
    IF is_unknown(current_location)
    THEN {quiet @@ [decision |-> "noop", same |-> same, elapsed_sec |-> -1]}
    ELSE IF same /\ no_update_needed(delay_between_polling, elapsed_sec)
    THEN {quiet @@ [decision |-> "skip", same |-> same, elapsed_sec |-> elapsed_sec]}
    ELSE {r @@ [decision |-> "push", same |-> same, elapsed_sec |-> elapsed_sec]
          : r \in push_and_store(self, current_location, status, sess, file, t)}

\* State::update_status cut short by a stop of the process between its send
\* and its set_location
update_status_stopped(self, current_location, status, sess, file, delay_between_polling, t) ==
    LET same == current_location = self.location
        elapsed_sec == IF same THEN elapsed_secs(t, self.lastchange_timestamp) ELSE -1
    IN
    IF is_unknown(current_location)
    THEN {}
    ELSE IF same /\ no_update_needed(delay_between_polling, elapsed_sec)
    THEN {}
    ELSE {r @@ [decision |-> "push", same |-> same, elapsed_sec |-> elapsed_sec]
          : r \in push_then_stop(self, current_location, status, sess, file, t)}

\* the payload the callers hand over: Some for a known location, None for Unknown
\* (lib.rs, process_one_iteration)
StatusFor(l) == IF l = Unknown THEN "none" ELSE "some"

---------------------------------------------------------------------------
(* utils.rs: parse_from_hmstr.  A string is the sequence of its characters. *)

Digits == <<"0", "1", "2", "3", "4", "5", "6", "7", "8", "9">>
IsDigit(c) == \E i \in 1..10 : Digits[i] = c
DigitValue(c) == (CHOOSE i \in 1..10 : Digits[i] = c) - 1

\* s.split(sep).collect(): the pieces between the separators, at least one
RECURSIVE Split(_, _)
Split(s, sep) ==
    IF \A i \in 1..Len(s) : s[i] # sep
    THEN <<s>>
    ELSE LET i == CHOOSE k \in 1..Len(s) : s[k] = sep /\ \A j \in 1..(k - 1) : s[j] # sep
         IN <<SubSeq(s, 1, i - 1)>> \o Split(SubSeq(s, i + 1, Len(s)), sep)

RECURSIVE DecimalValue(_)
DecimalValue(ds) ==
    IF ds = <<>> THEN 0
    ELSE 10 * DecimalValue(SubSeq(ds, 1, Len(ds) - 1)) + DigitValue(ds[Len(ds)])

\* str::parse::<u32>: decimal digits after an optional '+', no blank, no
\* sign '-', nothing above u32::MAX
ParseU32(cs) ==
    LET ds == IF cs # <<>> /\ cs[1] = "+" THEN Tail(cs) ELSE cs IN
    IF ds # <<>> /\ (\A i \in 1..Len(ds) : IsDigit(ds[i])) /\ Len(ds) <= 9
    THEN [ok |-> TRUE, v |-> DecimalValue(ds)]
    ELSE [ok |-> FALSE, v |-> 0]

\* Option<String>
NoString == [some |-> FALSE, s |-> <<>>]
SomeString(cs) == [some |-> TRUE, s |-> cs]

\* Option<NaiveDateTime>, to the minute: the calendar day and the minute of
\* the day (the seconds are 0 wherever the program builds one)
NoDateTime == [some |-> FALSE, day |-> 0, hm |-> 0]
SomeDateTime(d, m) == [some |-> TRUE, day |-> d, hm |-> m]

\* NaiveDate::and_hms_opt(hh, mm, 0)
and_hms_opt(day, hh, mm) ==
    IF hh < 24 /\ mm < 60 THEN SomeDateTime(day, hh * 60 + mm) ELSE NoDateTime

\* mutant: an unparsable minute part gives no time at all, like an
\* unparsable hour part
parse_from_hmstr_minute_required(time_str, today) ==
    IF ~time_str.some
    THEN NoDateTime
    ELSE LET splitted == Split(time_str.s, ":")
             hh == ParseU32(splitted[1])
         IN IF ~hh.ok
            THEN NoDateTime
            ELSE IF Len(splitted) < 2
            THEN and_hms_opt(today, hh.v, 0)
            ELSE LET m == ParseU32(splitted[2]) IN
                 IF m.ok THEN and_hms_opt(today, hh.v, m.v) ELSE NoDateTime

\* parse_from_hmstr, with today = Local::now().date_naive()
parse_from_hmstr(time_str, today) ==
    IF ~time_str.some
    THEN NoDateTime
    ELSE LET splitted == Split(time_str.s, ":")
             hh == ParseU32(splitted[1])
         IN IF ~hh.ok
            THEN NoDateTime
            ELSE LET mm == IF Len(splitted) < 2
                           THEN 0
                           ELSE LET m == ParseU32(splitted[2]) IN IF m.ok THEN m.v ELSE 0
                 IN and_hms_opt(today, hh.v, mm)

---------------------------------------------------------------------------
(* mattermost/status.rs: MMCustomStatus and its expiry *)

NoDuration == "none"

\* MMCustomStatus::new
MMCustomStatus_new(text, emoji) ==
    [text |-> text, emoji |-> emoji, duration |-> NoDuration, expires_at |-> NoDateTime]

\* a < b on NaiveDateTime
Before(a, b) == a.day < b.day \/ (a.day = b.day /\ a.hm < b.hm)

\* local times that do not exist: on day 1 the clocks go from 02:00 to 03:00
NonexistentLocal(dt) == dt.day = 1 /\ 120 <= dt.hm /\ dt.hm < 180

\* Local.from_local_datetime(&expiry).latest(): None for a local time that a
\* daylight-saving change skips
from_local_datetime_latest(dt) == IF NonexistentLocal(dt) THEN NoDateTime ELSE dt

\* mutant: an expiry equal to the current time is accepted
expires_at_incl_now(self, time_str, lnow) ==
    LET expiry == parse_from_hmstr(time_str, lnow.day) IN
    IF expiry.some /\ ~Before(expiry, lnow) /\ from_local_datetime_latest(expiry).some
    THEN [self EXCEPT !.expires_at = from_local_datetime_latest(expiry),
                      !.duration = "date_and_time"]
    ELSE self

\* MMCustomStatus::expires_at, with lnow = Local::now().naive_local()
expires_at(self, time_str, lnow) ==
    LET expiry == parse_from_hmstr(time_str, lnow.day) IN
    IF expiry.some /\ Before(lnow, expiry) /\ from_local_datetime_latest(expiry).some
    THEN [self EXCEPT !.expires_at = from_local_datetime_latest(expiry),
                      !.duration = "date_and_time"]
    ELSE self

\* to_json: the fields of the body; duration and expires_at are left out
\* when they are None (skip_serializing_if)
to_json(self) ==
    {<<"text", self.text>>, <<"emoji", self.emoji>>}
        \cup (IF self.duration = NoDuration THEN {} ELSE {<<"duration", self.duration>>})
        \cup (IF self.expires_at.some THEN {<<"expires_at", self.expires_at>>} ELSE {})

\* nothing was put on the wire
NothingSent == [some |-> FALSE, body |-> {}, at |-> NoDateTime]

\* the payload as prepare_status builds it for the wifi in sight
FreshStatus == MMCustomStatus_new("working", "office")

\* the payload variables where they are not looked at
PayloadAtRest ==
    /\ mmstatus = FreshStatus
    /\ local = SomeDateTime(0, 0)
    /\ expires_cfg = NoString
    /\ sent = NothingSent

\* no ShutdownSignal has been created
NoSignal == [handles |-> <<>>, flags |-> <<>>]

\* no sleep_or_stop call is in progress
NoSleep == [at |-> "idle", duration |-> 0, remaining |-> 0, clock |-> 0,
            requested_at |-> -1, ret |-> "none"]

\* the loop has not run an iteration yet
NoLoop == [iter |-> "none", exit |-> "running", asked_at |-> "never"]

\* create_session has not been entered
NoLogin ==
    [base |-> [kind |-> "none", base_uri |-> "", token |-> -1, user |-> "none",
               password |-> "none"],
     answer |-> [kind |-> "none", code |-> 0, token |-> -1,
                 body |-> [json |-> FALSE, id |-> [ty |-> "absent", v |-> ""]]],
     res |-> NotSent, got |-> [logged |-> FALSE], wire |-> <<>>, at |-> "none"]

\* the service variables where they are not looked at
ServiceAtRest ==
    /\ signal = NoSignal
    /\ sleeper = NoSleep
    /\ loop = NoLoop
    /\ login = NoLogin
    /\ status_dict = Ssids

---------------------------------------------------------------------------
(* The state machine *)

\* nothing is remembered of the cycle before
NoPrev == [cand |-> Unknown, how |-> "other", same |-> FALSE, infile |-> FALSE]

NoCall ==
    [cand |-> Unknown, decision |-> "none", same |-> FALSE, elapsed_sec |-> -1,
     res |-> Ok(0), wire |-> <<>>, sres |-> NotSent, sent |-> FALSE]

\* State files the program can find at start: none, an undecodable one, one
\* it may not read, or a
\* record written by set_location (always a known location).
InitFiles ==
    {FileAbsent, FileCorrupt, FileUnreadable} \cup {FileJson(MkState(l, t)) : l \in KnownLocations, t \in Times}

\* Sessions after create_session: a static token, or credentials
InitSessions ==
    {LoggedSession(0, NoCred, NoCred), LoggedSession(0, "alice", "pw")}

Init ==
    /\ now \in Times
    /\ cache \in InitFiles
    /\ state = StateNew(cache)
    /\ session \in InitSessions
    /\ delay \in PollIntervals
    /\ pc = "idle"
    /\ call = NoCall
    /\ prev = NoPrev
    /\ PayloadAtRest
    /\ ServiceAtRest

\* One call of State::update_status with candidate l.
UpdateStatus ==
    /\ pc = "idle"
    /\ \E l \in Locations :
        \E r \in update_status(state, l, StatusFor(l), session, cache, delay, now) :
            /\ state' = r.state
            /\ cache' = r.cache
            /\ session' = r.session
            /\ now' = r.now
            /\ call' = [cand |-> l, decision |-> r.decision, same |-> r.same,
                        elapsed_sec |-> r.elapsed_sec, res |-> r.res, wire |-> r.wire,
                        sres |-> r.sres, sent |-> r.sent]
    /\ pc' = "returned"
    /\ UNCHANGED <<delay, prev, payloadVars, signal, sleeper, loop, login, status_dict>>

\* Time passes between two calls (the sleep of the polling loop, a suspend, a
\* clock adjustment in either direction).
Elapse ==
    /\ pc = "returned"
    /\ now' \in Times
    /\ pc' = "idle"
    /\ call' = NoCall
    /\ UNCHANGED <<state, cache, session, delay, prev, payloadVars, signal, sleeper, loop, login,
                   status_dict>>

Next == UpdateStatus \/ Elapse

Spec == Init /\ [][Next]_vars

---------------------------------------------------------------------------
(* The polling loop in its steady state: the location does not change, every
   push succeeds within the second, and the polls are exactly delay apart *)

\* the wifi that stays in sight
SteadyLocation == Known("home")

\* poll intervals P > 0 with 2*P < MAX_SECS_BEFORE_FORCE_UPDATE
RegularIntervals == {60, 120, 600}

\* the location has just been recorded, at instant 0
RegularInit ==
    /\ now = 0
    /\ state = MkState(SteadyLocation, 0)
    /\ cache = FileJson(state)
    /\ session \in InitSessions
    /\ delay \in RegularIntervals
    /\ pc = "returned"
    /\ call = NoCall
    /\ prev = NoPrev
    /\ PayloadAtRest
    /\ ServiceAtRest

\* thread::sleep(delay_duration) and nothing else between two polls
RegularSleep ==
    /\ pc = "returned"
    /\ now + delay <= RegularHorizon
    /\ now' = now + delay
    /\ pc' = "idle"
    /\ call' = NoCall
    /\ UNCHANGED <<state, cache, session, delay, prev, payloadVars, signal, sleeper, loop, login,
                   status_dict>>

\* one iteration of the loop: the same wifi is seen, and if update_status
\* pushes, the push and the write of the record succeed
RegularPoll ==
    /\ pc = "idle"
    /\ \E r \in update_status(state, SteadyLocation, StatusFor(SteadyLocation),
                              session, cache, delay, now) :
            /\ r.decision = "push" => (r.sent /\ r.res.ok /\ r.now = now)
            /\ state' = r.state
            /\ cache' = r.cache
            /\ session' = r.session
            /\ now' = r.now
            /\ call' = [cand |-> SteadyLocation, decision |-> r.decision, same |-> r.same,
                        elapsed_sec |-> r.elapsed_sec, res |-> r.res, wire |-> r.wire,
                        sres |-> r.sres, sent |-> r.sent]
    /\ pc' = "returned"
    /\ UNCHANGED <<delay, prev, payloadVars, signal, sleeper, loop, login, status_dict>>

RegularNext == RegularPoll \/ RegularSleep

SpecRegular == RegularInit /\ [][RegularNext]_vars

---------------------------------------------------------------------------
(* The life of the process: poll cycles, a stop in the middle of a push, and
   the restart from the state file.  prev remembers the cycle before. *)

\* the process runs with the default poll interval
LifeInit ==
    /\ now \in Times
    /\ cache \in InitFiles
    /\ state = state_new(cache).state
    /\ session \in InitSessions
    /\ delay = 60
    /\ pc = "idle"
    /\ call = NoCall
    /\ prev = NoPrev
    /\ PayloadAtRest
    /\ ServiceAtRest

\* what the next cycle has to know of the cycle c that has just returned
Remembered(c) ==
    IF c.decision = "push" /\ ~c.sent
    THEN [cand |-> c.cand, how |-> "failed", same |-> c.same, infile |-> FALSE]
    ELSE NoPrev

\* One iteration of the loop: one call of update_status with candidate l
Poll ==
    /\ pc = "idle"
    /\ \E l \in Locations :
        \E r \in update_status(state, l, StatusFor(l), session, cache, delay, now) :
            /\ state' = r.state
            /\ cache' = r.cache
            /\ session' = r.session
            /\ now' = r.now
            /\ call' = [cand |-> l, decision |-> r.decision, same |-> r.same,
                        elapsed_sec |-> r.elapsed_sec, res |-> r.res, wire |-> r.wire,
                        sres |-> r.sres, sent |-> r.sent]
    /\ pc' = "returned"
    /\ UNCHANGED <<delay, prev, payloadVars, signal, sleeper, loop, login, status_dict>>

\* The sleep between two iterations
Sleep ==
    /\ pc = "returned"
    /\ now' \in Times
    /\ pc' = "idle"
    /\ prev' = Remembered(call)
    /\ call' = NoCall
    /\ UNCHANGED <<state, cache, session, delay, payloadVars, signal, sleeper, loop, login,
                   status_dict>>

\* The process stops (a kill, a power cut) inside update_status, after the
\* status was sent and before the record is set
StopAfterPush ==
    /\ pc = "idle"
    /\ \E l \in Locations :
        \E r \in update_status_stopped(state, l, StatusFor(l), session, cache, delay, now) :
            /\ state' = r.state
            /\ cache' = r.cache
            /\ session' = r.session
            /\ now' = r.now
            /\ call' = [cand |-> l, decision |-> r.decision, same |-> r.same,
                        elapsed_sec |-> r.elapsed_sec, res |-> r.res, wire |-> r.wire,
                        sres |-> r.sres, sent |-> r.sent]
            /\ prev' = [cand |-> l, how |-> "stopped", same |-> r.same,
                        infile |-> (cache.kind = "json" /\ cache.location = l)]
    /\ pc' = "stopped"
    /\ UNCHANGED <<delay, payloadVars, signal, sleeper, loop, login, status_dict>>

\* The process is started again: State::new reads the state file,
\* create_session logs in anew; the `?` on State::new ends the process if it
\* returns an error
Restart ==
    /\ pc = "stopped"
    /\ LET sn == state_new(cache) IN
        /\ call' = [NoCall EXCEPT !.decision = "start", !.res = sn.res]
        /\ IF sn.res.ok
           THEN /\ state' = sn.state
                /\ session' \in {LoggedSession(tok, session.user, session.password)
                                 : tok \in IF session.user = NoCred THEN {0} ELSE Tokens}
                /\ pc' = "idle"
           ELSE UNCHANGED <<state, session, pc>>
    /\ now' \in Times
    /\ UNCHANGED <<cache, delay, prev, payloadVars, signal, sleeper, loop, login, status_dict>>

LifeNext == Poll \/ Sleep \/ StopAfterPush \/ Restart

SpecLife == LifeInit /\ [][LifeNext]_vars

---------------------------------------------------------------------------
(* The payload over the iterations of the loop: the known wifi stays in
   sight, each iteration sets the expiry on the payload kept in status_dict
   and hands the payload to update_status, which sends it or not *)

\* minutes of the day the local clock is looked at: 00:00, 07:59, 08:00,
\* 08:01, 17:59, 18:00, 18:01, 23:59
ClockMinutes == {0, 479, 480, 481, 1079, 1080, 1081, 1439}

LocalTimes == {SomeDateTime(d, m) : d \in 0..MaxDay, m \in ClockMinutes}

\* values of schedule.expires_at: none, "18:00", "8", "2:30", "18:3O",
\* "biii", "24:00", ":12:30", "07:01", "7:75", "23:", "9:45:30"
ExpiryConfigs ==
    {NoString,
     SomeString(<<"1", "8", ":", "0", "0">>),
     SomeString(<<"8">>),
     SomeString(<<"2", ":", "3", "0">>),
     SomeString(<<"1", "8", ":", "3", "O">>),
     SomeString(<<"b", "i", "i", "i">>),
     SomeString(<<"2", "4", ":", "0", "0">>),
     SomeString(<<":", "1", "2", ":", "3", "0">>),
     SomeString(<<"0", "7", ":", "0", "1">>),
     SomeString(<<"7", ":", "7", "5">>),
     SomeString(<<"2", "3", ":">>),
     SomeString(<<"9", ":", "4", "5", ":", "3", "0">>)}

ExpiryInit ==
    /\ now = 0
    /\ cache = FileAbsent
    /\ state = StateNew(cache)
    /\ session = LoggedSession(0, NoCred, NoCred)
    /\ delay = 60
    /\ pc = "idle"
    /\ call = NoCall
    /\ prev = NoPrev
    /\ mmstatus = FreshStatus
    /\ local \in LocalTimes
    /\ expires_cfg \in ExpiryConfigs
    /\ sent = NothingSent
    /\ ServiceAtRest

\* process_one_iteration with the known wifi in sight: expires_at on the
\* payload of status_dict, then update_status, which puts the payload on the
\* wire when it decides to push
Iteration ==
    /\ pc = "idle"
    /\ mmstatus' = expires_at(mmstatus, expires_cfg, local)
    /\ \E pushed \in BOOLEAN :
          sent' = IF pushed
                  THEN [some |-> TRUE, body |-> to_json(mmstatus'), at |-> local]
                  ELSE NothingSent
    /\ pc' = "returned"
    /\ UNCHANGED <<now, state, cache, session, delay, call, prev, local, expires_cfg, signal, sleeper, loop, login,
                   status_dict>>

\* the sleep of the loop: the local clock moves on
Advance ==
    /\ pc = "returned"
    /\ local' \in {t \in LocalTimes : Before(local, t)}
    /\ pc' = "idle"
    /\ UNCHANGED <<now, state, cache, session, delay, call, prev, mmstatus, expires_cfg, sent, signal, sleeper, loop, login,
                   status_dict>>

\* the process is started again: prepare_status builds the payloads anew
StartOver ==
    /\ pc = "returned"
    /\ mmstatus' = FreshStatus
    /\ pc' = "idle"
    /\ UNCHANGED <<now, state, cache, session, delay, call, prev, local, expires_cfg, sent, signal, sleeper, loop, login,
                   status_dict>>

ExpiryNext == Iteration \/ Advance \/ StartOver

SpecExpiry == ExpiryInit /\ [][ExpiryNext]_vars

---------------------------------------------------------------------------
(* shutdown.rs: ShutdownSignal.  A handle is an index of signal.handles; its
   entry is the index in signal.flags of the AtomicBool its Arc points to. *)

\* ShutdownSignal::new: a new AtomicBool, false, and the first handle on it
ShutdownSignal_new(sig) ==
    [handles |-> Append(sig.handles, Len(sig.flags) + 1),
     flags |-> Append(sig.flags, FALSE)]

\* mutant: the clone gets an AtomicBool of its own, holding the current value
ShutdownSignal_clone_own_flag(sig, h) ==
    [handles |-> Append(sig.handles, Len(sig.flags) + 1),
     flags |-> Append(sig.flags, sig.flags[sig.handles[h]])]

\* #[derive(Clone)]: Arc::clone, one more handle on the same AtomicBool
ShutdownSignal_clone(sig, h) ==
    [handles |-> Append(sig.handles, sig.handles[h]), flags |-> sig.flags]

\* request_shutdown: flag.store(true, Release)
request_shutdown(sig, h) ==
    [handles |-> sig.handles, flags |-> [sig.flags EXCEPT ![sig.handles[h]] = TRUE]]

\* is_shutdown_requested: flag.load(Acquire)
is_shutdown_requested(sig, h) == sig.flags[sig.handles[h]]

\* the engine variables where they are not looked at
EngineAtRest ==
    /\ now = 0
    /\ cache = FileAbsent
    /\ state = StateNew(cache)
    /\ session = LoggedSession(0, NoCred, NoCred)
    /\ delay = 60
    /\ pc = "idle"
    /\ prev = NoPrev

SignalInit ==
    /\ status_dict = Ssids
    /\ EngineAtRest
    \* the history of the handles: family[h] is the handle ShutdownSignal::new()
    \* returned and h was cloned from, directly or not; asked is the set of the
    \* handles request_shutdown was called on
    /\ call = [op |-> "none", handle |-> 0, family |-> <<>>, asked |-> {}]
    /\ PayloadAtRest
    /\ signal = NoSignal
    /\ sleeper = NoSleep
    /\ loop = NoLoop
    /\ login = NoLogin

\* let shutdown = ShutdownSignal::new()
SignalNew ==
    /\ Len(signal.flags) < MaxSignals
    /\ Len(signal.handles) < MaxHandles
    /\ signal' = ShutdownSignal_new(signal)
    /\ call' = [call EXCEPT !.op = "new", !.handle = Len(signal.handles) + 1,
                            !.family = Append(@, Len(signal.handles) + 1)]
    /\ UNCHANGED <<now, state, cache, session, delay, pc, prev, payloadVars,
                   sleeper, loop, login, status_dict>>

\* let shutdown_clone = shutdown.clone(), of any handle alive
SignalClone ==
    /\ Len(signal.handles) < MaxHandles
    /\ \E h \in DOMAIN signal.handles :
          /\ signal' = ShutdownSignal_clone(signal, h)
          /\ call' = [call EXCEPT !.op = "clone", !.handle = Len(signal.handles) + 1,
                                  !.family = Append(@, call.family[h])]
    /\ UNCHANGED <<now, state, cache, session, delay, pc, prev, payloadVars,
                   sleeper, loop, login, status_dict>>

\* request_shutdown on any handle alive, from any thread
SignalRequest ==
    /\ \E h \in DOMAIN signal.handles :
          /\ signal' = request_shutdown(signal, h)
          /\ call' = [call EXCEPT !.op = "request", !.handle = h,
                                  !.asked = @ \cup {h}]
    /\ UNCHANGED <<now, state, cache, session, delay, pc, prev, payloadVars,
                   sleeper, loop, login, status_dict>>

SpecSignal == SignalInit /\ [][SignalNew \/ SignalClone \/ SignalRequest]_vars

---------------------------------------------------------------------------
(* shutdown.rs: sleep_or_stop, step by step.  Durations are in milliseconds;
   thread::sleep(chunk) is taken to last chunk. *)

\* const SLEEP_CHUNK: Duration = Duration::from_millis(500)
SLEEP_CHUNK == 500

\* the handle the loop sleeps on (the control handler holds its clone, 2)
LoopHandle == 1

\* sleep_or_stop is entered: let mut remaining = duration
sleep_or_stop_enter(fr, duration) ==
    [fr EXCEPT !.at = "test", !.duration = duration, !.remaining = duration,
               !.clock = 0, !.ret = "none"]

\* mutant: the flag is not read again once the duration has elapsed
sleep_or_stop_test_no_last_read(fr, sig) ==
    IF fr.remaining > 0
    THEN IF is_shutdown_requested(sig, LoopHandle)
         THEN [fr EXCEPT !.at = "done", !.ret = TRUE]
         ELSE [fr EXCEPT !.at = "sleeping"]
    ELSE [fr EXCEPT !.at = "done", !.ret = FALSE]

\* lines 48-52 and 56: the test of the while loop, the read of the flag inside
\* it (return true), or the read of the flag after it (the value returned)
sleep_or_stop_test(fr, sig) ==
    IF fr.remaining > 0
    THEN IF is_shutdown_requested(sig, LoopHandle)
         THEN [fr EXCEPT !.at = "done", !.ret = TRUE]
         ELSE [fr EXCEPT !.at = "sleeping"]
    ELSE [fr EXCEPT !.at = "done", !.ret = is_shutdown_requested(sig, LoopHandle)]

\* mutant: the whole remaining time is slept in one piece
sleep_or_stop_chunk_uncapped(fr) == fr.remaining

\* line 52: let chunk = remaining.min(SLEEP_CHUNK)
sleep_or_stop_chunk(fr) == IF fr.remaining < SLEEP_CHUNK THEN fr.remaining ELSE SLEEP_CHUNK

\* lines 53-54: thread::sleep(chunk) returns; remaining loses the chunk
\* (remaining.saturating_sub(chunk) stops at 0)
sleep_or_stop_wake(fr) ==
    [fr EXCEPT !.at = "test", !.clock = @ + sleep_or_stop_chunk(fr),
               !.remaining = IF @ < sleep_or_stop_chunk(fr) THEN 0
                             ELSE @ - sleep_or_stop_chunk(fr)]

\* the instants at which a request made now may have been made: now, or, while
\* the loop thread sleeps, any instant of the chunk (its start, one
\* millisecond in, its end)
RequestInstants(fr) ==
    IF fr.at = "sleeping"
    THEN {fr.clock, fr.clock + 1, fr.clock + sleep_or_stop_chunk(fr)}
    ELSE {fr.clock}

SleepInit ==
    /\ status_dict = Ssids
    /\ EngineAtRest
    /\ call = NoCall
    /\ PayloadAtRest
    /\ signal = ShutdownSignal_clone(ShutdownSignal_new(NoSignal), LoopHandle)
    /\ sleeper = NoSleep
    /\ loop = NoLoop
    /\ login = NoLogin

\* shutdown.sleep_or_stop(d) is called, for the first time or again
SleepCall ==
    /\ sleeper.at \in {"idle", "done"}
    \* nothing, less than a chunk, one chunk, two chunks, two chunks and a
    \* rest, three chunks and a rest
    /\ \E d \in {0, 300, 500, 1000, 1200, 1700} :
          sleeper' = [sleep_or_stop_enter(sleeper, d) EXCEPT
                        !.requested_at = IF sleeper.requested_at = -1 THEN -1 ELSE 0]
    /\ UNCHANGED <<now, state, cache, session, delay, pc, call, prev, payloadVars,
                   signal, loop, login, status_dict>>

\* the loop thread evaluates the loop condition and reads the flag
SleepTest ==
    /\ sleeper.at = "test"
    /\ sleeper' = sleep_or_stop_test(sleeper, signal)
    /\ UNCHANGED <<now, state, cache, session, delay, pc, call, prev, payloadVars,
                   signal, loop, login, status_dict>>

\* thread::sleep(chunk) returns
SleepWake ==
    /\ sleeper.at = "sleeping"
    /\ sleeper' = sleep_or_stop_wake(sleeper)
    /\ UNCHANGED <<now, state, cache, session, delay, pc, call, prev, payloadVars,
                   signal, loop, login, status_dict>>

\* the control handler, on its own thread, receives ServiceControl::Stop; the
\* instant of the first request is kept with the frame
SleepRequest ==
    /\ signal' = request_shutdown(signal, 2)     \* the handler's clone
    /\ \E r \in RequestInstants(sleeper) :
          sleeper' = IF sleeper.requested_at = -1
                     THEN [sleeper EXCEPT !.requested_at = r]
                     ELSE sleeper
    /\ signal' # signal
    /\ UNCHANGED <<now, state, cache, session, delay, pc, call, prev, payloadVars,
                   loop, login, status_dict>>

\* the loop thread is scheduled and thread::sleep returns
SpecSleep ==
    /\ SleepInit
    /\ [][SleepCall \/ SleepTest \/ SleepWake \/ SleepRequest]_vars
    /\ WF_vars(SleepTest)
    /\ WF_vars(SleepWake)

---------------------------------------------------------------------------
(* lib.rs: process_one_iteration and the loop of
   get_wifi_and_update_status_loop *)

\* the requests of a call, by kind
Sends(w) == Cardinality({i \in DOMAIN w : w[i].method = "PUT"})
Logins(w) == Cardinality({i \in DOMAIN w : w[i].method = "POST"})

\* what processes_owning_mic finds: an error, no watched application, one
MicScans == {"error", "none", "watched"}

\* mutant: the flag is left as it is when Online is sent
update_dnd_status_keep_used(used, mic, sess) ==
    IF mic = "error"
    THEN {[used |-> used, session |-> sess, status |-> "none"]}
    ELSE IF mic = "watched"
    THEN {[used |-> TRUE, session |-> s.session, status |-> "dnd"]
          : s \in send_at(sess, "/api/v4/users/me/status")}
    ELSE IF used
    THEN {[used |-> used, session |-> s.session, status |-> "online"]
          : s \in send_at(sess, "/api/v4/users/me/status")}
    ELSE {[used |-> used, session |-> sess, status |-> "none"]}

\* MicUsage::update_dnd_status: MMStatus::send drops the result of send_at,
\* the session keeps what a relogin did to it; status is the Status of the
\* MMStatus that was sent
update_dnd_status(used, mic, sess) ==
    IF mic = "error"
    THEN {[used |-> used, session |-> sess, status |-> "none"]}
    ELSE IF mic = "watched"
    THEN {[used |-> TRUE, session |-> s.session, status |-> "dnd"]
          : s \in send_at(sess, "/api/v4/users/me/status")}
    ELSE IF used
    THEN {[used |-> FALSE, session |-> s.session, status |-> "online"]
          : s \in send_at(sess, "/api/v4/users/me/status")}
    ELSE {[used |-> used, session |-> sess, status |-> "none"]}

\* str::contains
contains(x, wifi_substring) ==
    \E i \in 0..(Len(x) - Len(wifi_substring)) :
        SubSeq(x, i + 1, i + Len(wifi_substring)) = wifi_substring

\* mutant: the entry of the off time is not passed over
search_known_wifi_match_empty(keys, ssids, self, sess, file, delay_secs, t) ==
    IF keys = <<>> \/ ~(\E k \in 1..Len(keys) : \E x \in ssids : contains(x, keys[k]))
    THEN {<<>>}
    ELSE LET k == CHOOSE n \in 1..Len(keys) :
                    /\ \E x \in ssids : contains(x, keys[n])
                    /\ \A m \in 1..(n - 1) : ~(\E x \in ssids : contains(x, keys[m]))
         IN {<<[cand |-> Known(keys[k]), status |-> "some", u |-> u]>>
             : u \in update_status(self, Known(keys[k]), "some", sess, file, delay_secs, t)}

\* mutant: the search goes on after a known wifi was found
RECURSIVE search_known_wifi_no_break(_, _, _, _, _, _, _)
search_known_wifi_no_break(keys, ssids, self, sess, file, delay_secs, t) ==
    IF keys = <<>>
    THEN {<<>>}
    ELSE IF Head(keys) = "" \/ ~(\E x \in ssids : contains(x, Head(keys)))
    THEN search_known_wifi_no_break(Tail(keys), ssids, self, sess, file, delay_secs, t)
    ELSE UNION {
        {<<[cand |-> Known(Head(keys)), status |-> "some", u |-> u]>> \o rest
         : rest \in search_known_wifi_no_break(Tail(keys), ssids, u.state, u.session,
                                               u.cache, delay_secs, u.now)}
        : u \in update_status(self, Known(Head(keys)), "some", sess, file, delay_secs, t)}

\* lines 120-138: the search for a known wifi among the visible ssids, through
\* the entries of status_dict in the order keys.  The entry of the off time
\* ("", which every ssid contains) is passed over; update_status is called
\* for the first other entry that some visible ssid contains, and the search
\* stops there.  The result is the sequence of the update_status calls made.
RECURSIVE search_known_wifi(_, _, _, _, _, _, _)
search_known_wifi(keys, ssids, self, sess, file, delay_secs, t) ==
    IF keys = <<>>
    THEN {<<>>}
    ELSE IF Head(keys) = "" \/ ~(\E x \in ssids : contains(x, Head(keys)))
    THEN search_known_wifi(Tail(keys), ssids, self, sess, file, delay_secs, t)
    ELSE {<<[cand |-> Known(Head(keys)), status |-> "some", u |-> u]>>
          : u \in update_status(self, Known(Head(keys)), "some", sess, file, delay_secs, t)}

\* mutant: in the off time update_status is called whether or not status_dict
\* has an entry for it
iteration_update_off_always(self, sess, file, delay_secs, t, off_time, scan, dict) ==
    IF off_time
    THEN LET status == IF "" \in dict THEN "some" ELSE "none" IN
         {<<[cand |-> Known(""), status |-> status, u |-> u]>>
          : u \in update_status(self, Known(""), status, sess, file, delay_secs, t)}
    ELSE UNION {
        LET found == search_known_wifi(keys, scan.ssids, self, sess, file, delay_secs, t) IN
        IF found = {<<>>}
        THEN {<<[cand |-> Unknown, status |-> "none", u |-> u]>>
              : u \in update_status(self, Unknown, "none", sess, file, delay_secs, t)}
        ELSE found
        : keys \in {o \in [1..Cardinality(dict) -> dict] :
                       \A a, b \in DOMAIN o : a # b => o[a] # o[b]}}

\* lines 115-157 without the scan: the update_status calls of the iteration,
\* as a sequence.  On duty the HashMap status_dict is gone through in any
\* order and, when no known wifi was found, update_status is called with
\* Unknown and no payload; in the off time it is called for Known("") if
\* status_dict has an entry for it.
iteration_update(self, sess, file, delay_secs, t, off_time, scan, dict) ==
    IF off_time
    THEN IF "" \in dict
         THEN {<<[cand |-> Known(""), status |-> "some", u |-> u]>>
               : u \in update_status(self, Known(""), "some", sess, file, delay_secs, t)}
         ELSE {<<>>}
    ELSE UNION {
        LET found == search_known_wifi(keys, scan.ssids, self, sess, file, delay_secs, t) IN
        IF found = {<<>>}
        THEN {<<[cand |-> Unknown, status |-> "none", u |-> u]>>
              : u \in update_status(self, Unknown, "none", sess, file, delay_secs, t)}
        ELSE found
        : keys \in {o \in [1..Cardinality(dict) -> dict] :
                       \A a, b \in DOMAIN o : a # b => o[a] # o[b]}}

\* what an iteration leaves behind after the update_status calls c, made from
\* the state self, the session sess, the file and the instant t
AfterUpdates(c, self, sess, file, t) ==
    IF c = <<>>
    THEN [state |-> self, cache |-> file, session |-> sess, now |-> t]
    ELSE [state |-> c[Len(c)].u.state, cache |-> c[Len(c)].u.cache,
          session |-> c[Len(c)].u.session, now |-> c[Len(c)].u.now]

\* mutant: the error of update_status is handed to the caller with ?
process_one_iteration_propagate(self, sess, file, delay_secs, t, off_time, scan, dict, mic, used) ==
    IF ~off_time /\ ~scan.ok
    THEN {[res |-> Err("Getting visible SSIDs", 0), logged |-> FALSE, scanned |-> TRUE,
           updates |-> <<>>,
           state |-> self, cache |-> file, session |-> sess, now |-> t, used |-> used,
           dnd |-> "none"]}
    ELSE UNION {
        LET a == AfterUpdates(c, self, sess, file, t) IN
        IF \E n \in DOMAIN c : ~c[n].u.res.ok
        THEN {[res |-> c[Len(c)].u.res, logged |-> FALSE, scanned |-> ~off_time, updates |-> c,
               state |-> a.state, cache |-> a.cache, session |-> a.session, now |-> a.now,
               used |-> used, dnd |-> "none"]}
        ELSE {[res |-> Ok(0), logged |-> FALSE, scanned |-> ~off_time, updates |-> c,
               state |-> a.state, cache |-> a.cache, session |-> d.session, now |-> a.now,
               used |-> d.used, dnd |-> d.status]
              : d \in update_dnd_status(used, mic, a.session)}
        : c \in iteration_update(self, sess, file, delay_secs, t, off_time, scan, dict)}

\* process_one_iteration: the scan, made on duty only (its error is
\* returned), the update_status calls (their errors are logged), then
\* update_dnd_status; Ok(()).  scanned tells whether wifi.visible_ssid() was
\* called, updates the update_status calls made, dnd the status sent for the
\* microphone.
process_one_iteration(self, sess, file, delay_secs, t, off_time, scan, dict, mic, used) ==
    IF ~off_time /\ ~scan.ok
    THEN {[res |-> Err("Getting visible SSIDs", 0), logged |-> FALSE, scanned |-> TRUE,
           updates |-> <<>>,
           state |-> self, cache |-> file, session |-> sess, now |-> t, used |-> used,
           dnd |-> "none"]}
    ELSE UNION {
        LET a == AfterUpdates(c, self, sess, file, t) IN
        {[res |-> Ok(0), logged |-> \E n \in DOMAIN c : ~c[n].u.res.ok, scanned |-> ~off_time, updates |-> c,
          state |-> a.state, cache |-> a.cache, session |-> d.session, now |-> a.now,
          used |-> d.used, dnd |-> d.status]
         : d \in update_dnd_status(used, mic, a.session)}
        : c \in iteration_update(self, sess, file, delay_secs, t, off_time, scan, dict)}

\* how the loop goes on after an iteration: ? on its error, break when
\* schedule.delay is 0, sleep otherwise
loop_after(res, delay_secs) ==
    IF ~res.ok THEN "error" ELSE IF delay_secs = 0 THEN "break" ELSE "running"

\* what the loop meets in one turn: the off time (the wifi is not looked
\* at), or what wifi.visible_ssid() gives (an error, no configured wifi in
\* sight, the configured one)
Sights ==
    {[off_time |-> TRUE, ok |-> TRUE, ssids |-> {}],
     [off_time |-> FALSE, ok |-> FALSE, ssids |-> {}],
     [off_time |-> FALSE, ok |-> TRUE, ssids |-> {"cafe"}],
     [off_time |-> FALSE, ok |-> TRUE, ssids |-> {"cafe", "home-5G"}]}

\* the update_status call of the iteration r as the variable call shows it
CallOf(r) ==
    IF r.updates = <<>>
    THEN NoCall
    ELSE LET c == r.updates[Len(r.updates)] IN
         [cand |-> c.cand, decision |-> c.u.decision, same |-> c.u.same,
          elapsed_sec |-> c.u.elapsed_sec, res |-> c.u.res, wire |-> c.u.wire,
          sres |-> c.u.sres, sent |-> c.u.sent]

LoopInit ==
    /\ status_dict = Ssids      \* the off time and one wifi are configured
    /\ now = 0
    /\ cache = FileAbsent                      \* no state file at the first start
    /\ state = StateNew(cache)
    /\ session = LoggedSession(0, "alice", "pw")  \* logged in with credentials
    /\ delay \in {0, 60}                      \* single shot, and the default
    /\ pc = "idle"
    /\ call = NoCall
    /\ prev = NoPrev
    /\ PayloadAtRest
    /\ signal = NoSignal
    /\ sleeper = NoSleep
    /\ loop = [NoLoop EXCEPT !.iter = [res |-> Ok(0), logged |-> FALSE, used |-> FALSE]]
    /\ login = NoLogin

\* one turn of the loop: process_one_iteration(...)?, then break or sleep
LoopIteration ==
    /\ pc = "idle"
    /\ \E sight \in Sights, mic \in MicScans :
        \E r \in process_one_iteration(state, session, cache, delay, now, sight.off_time,
                                       sight, status_dict, mic, loop.iter.used) :
            /\ state' = r.state
            /\ cache' = r.cache
            /\ session' = r.session
            /\ now' = r.now
            /\ call' = CallOf(r)
            /\ loop' = [iter |-> [res |-> r.res, logged |-> r.logged, used |-> r.used],
                        exit |-> loop_after(r.res, delay),
                        asked_at |-> loop.asked_at]
            /\ pc' = IF loop_after(r.res, delay) = "running" THEN "returned" ELSE "exited"
    /\ UNCHANGED <<delay, prev, payloadVars, signal, sleeper, login, status_dict>>

\* sleep(delay_duration): time passes, the loop comes back to its top
LoopSleep ==
    /\ pc = "returned"
    \* within the quiet window of the record written at 0, or past the forced
    \* update
    /\ now' \in {121, 3601}
    /\ pc' = "idle"
    /\ UNCHANGED <<state, cache, session, delay, call, prev, payloadVars, signal, sleeper,
                   loop, login, status_dict>>

SpecLoop == LoopInit /\ [][LoopIteration \/ LoopSleep]_vars

----------------------------------------------------------------------------
(* process_one_iteration over the configurations of status_dict and what is
   in sight *)

\* a status_dict without entries, one without the off time, one with the
\* off time and two wifi; nothing was observed of the microphone yet
IterationInit ==
    /\ status_dict \in {{}, {"home"}, {"", "home", "work"}}
    /\ now = 0
    /\ cache = FileAbsent
    /\ state = StateNew(cache)
    /\ session = LoggedSession(0, "alice", "pw")
    /\ delay = 60
    /\ pc = "idle"
    /\ call = NoCall
    /\ prev = NoPrev
    /\ PayloadAtRest
    /\ signal = NoSignal
    /\ sleeper = NoSleep
    /\ loop = [NoLoop EXCEPT !.iter = [res |-> Ok(0), logged |-> FALSE, used |-> FALSE,
                                       off_time |-> FALSE, scan |-> "none",
                                       scanned |-> FALSE, mic |-> "error", updates |-> <<>>,
                                       dnd |-> "none", seen |-> "never", ever |-> FALSE]]
    /\ login = NoLogin

\* one turn of the loop.  wifi.visible_ssid() gives an error, or the ssids in
\* sight (one of them contains two wifi substrings); in the off time it
\* would fail.  Of the turn are kept: scan, what the scan gave if there was
\* one; updates, the update_status calls with their candidates and payloads,
\* whether the unwrap of the payload panicked, and how many status and login
\* requests each made; seen, the last mic observation that did not fail;
\* ever, whether one of them found a watched application.
Iterate ==
    /\ pc = "idle"
    /\ \E off_time \in BOOLEAN, mic \in MicScans,
          scan \in {[ok |-> FALSE, ssids |-> {}],
                    [ok |-> TRUE, ssids |-> {"cafe"}],
                    [ok |-> TRUE, ssids |-> {"cafe", "homework"}]} :
        /\ off_time => ~scan.ok
        /\ \E r \in process_one_iteration(state, session, cache, delay, now, off_time, scan,
                                       status_dict, mic, loop.iter.used) :
            /\ state' = r.state
            /\ cache' = r.cache
            /\ session' = r.session
            /\ now' = r.now
            /\ call' = NoCall
            /\ loop' = [iter |-> [res |-> r.res, logged |-> r.logged, used |-> r.used,
                                  off_time |-> off_time, scanned |-> r.scanned,
                                  scan |-> IF r.scanned THEN scan ELSE "none",
                                  mic |-> mic,
                                  updates |->
                                      [n \in DOMAIN r.updates |->
                                          [cand |-> r.updates[n].cand,
                                           status |-> r.updates[n].status,
                                           panic |-> r.updates[n].u.res = Err("panic", 0),
                                           sends |-> Sends(r.updates[n].u.wire),
                                           logins |-> Logins(r.updates[n].u.wire)]],
                                  dnd |-> r.dnd,
                                  seen |-> IF r.res.ok /\ mic # "error"
                                           THEN mic ELSE loop.iter.seen,
                                  ever |-> loop.iter.ever \/ (r.res.ok /\ mic = "watched")],
                        exit |-> loop_after(r.res, delay),
                        asked_at |-> loop.asked_at]
            /\ pc' = IF loop_after(r.res, delay) = "running" THEN "returned" ELSE "exited"
    /\ UNCHANGED <<delay, prev, payloadVars, signal, sleeper, login, status_dict>>

\* sleep(delay_duration): the loop comes back to its top, past the forced
\* update of a record written at 0
IterationSleep ==
    /\ pc = "returned"
    /\ now' = 3601
    /\ pc' = "idle"
    /\ UNCHANGED <<state, cache, session, delay, call, prev, payloadVars, signal, sleeper,
                   loop, login, status_dict>>

SpecIteration == IterationInit /\ [][Iterate \/ IterationSleep]_vars

---------------------------------------------------------------------------
(* The loop of the service: get_wifi_and_update_status_loop(config,
   status_dict, shutdown), as run_service calls it.  Its sleep is
   shutdown.sleep_or_stop(delay_duration), and it breaks when that returns
   true.  A poll cycle is two steps (entered, returned), so that the control
   handler may act while it runs. *)

\* if shutdown.sleep_or_stop(delay_duration) { break; }
shutdown_loop_after_sleep(ret) == IF ret THEN "shutdown" ELSE "running"

ServiceInit ==
    /\ status_dict = Ssids      \* the off time and one wifi are configured
    /\ now = 0
    /\ cache = FileAbsent                      \* no state file at the first start
    /\ state = StateNew(cache)
    /\ session = LoggedSession(0, "alice", "pw")  \* logged in with credentials
    /\ delay \in {0, 1}                       \* single shot, and two chunks
    /\ pc = "idle"
    /\ call = NoCall
    /\ prev = NoPrev
    /\ PayloadAtRest
    /\ signal = ShutdownSignal_clone(ShutdownSignal_new(NoSignal), LoopHandle)
    /\ sleeper = NoSleep
    /\ loop = [NoLoop EXCEPT !.iter = [res |-> Ok(0), logged |-> FALSE, used |-> FALSE]]
    /\ login = NoLogin

\* the loop enters process_one_iteration
CycleBegin ==
    /\ pc = "idle"
    /\ pc' = "polling"
    /\ UNCHANGED <<now, state, cache, session, delay, call, prev, payloadVars,
                   signal, sleeper, loop, login, status_dict>>

\* process_one_iteration returns: ? on its error, break on a delay of 0,
\* otherwise sleep_or_stop is entered
CycleEnd ==
    /\ pc = "polling"
    /\ \E sight \in Sights, mic \in MicScans :
        \E r \in process_one_iteration(state, session, cache, delay, now, sight.off_time,
                                       sight, status_dict, mic, loop.iter.used) :
            /\ state' = r.state
            /\ cache' = r.cache
            /\ session' = r.session
            /\ call' = [NoCall EXCEPT !.cand = CallOf(r).cand,
                                       !.decision = CallOf(r).decision,
                                       !.res = CallOf(r).res, !.sent = CallOf(r).sent]
            /\ loop' = [loop EXCEPT !.iter = [res |-> r.res, logged |-> r.logged,
                                              used |-> r.used],
                                    !.exit = loop_after(r.res, delay)]
            /\ IF loop_after(r.res, delay) = "running"
               THEN /\ pc' = "returned"
                    /\ sleeper' = sleep_or_stop_enter(sleeper, delay * 1000)
               ELSE /\ pc' = "exited"
                    /\ sleeper' = sleeper
    /\ UNCHANGED <<now, delay, prev, payloadVars, signal, login, status_dict>>

\* inside sleep_or_stop: the loop condition and the read of the flag; when
\* sleep_or_stop returns, the loop breaks or goes back to its top
ServiceSleepTest ==
    /\ pc = "returned"
    /\ sleeper.at = "test"
    /\ sleeper' = sleep_or_stop_test(sleeper, signal)
    /\ IF sleeper'.at = "done"
       THEN /\ loop' = [loop EXCEPT !.exit = shutdown_loop_after_sleep(sleeper'.ret)]
            /\ pc' = IF sleeper'.ret THEN "exited" ELSE "idle"
       ELSE UNCHANGED <<loop, pc, status_dict>>
    /\ UNCHANGED <<now, state, cache, session, delay, call, prev, payloadVars,
                   signal, login, status_dict>>

\* inside sleep_or_stop: thread::sleep(chunk) returns
ServiceSleepWake ==
    /\ pc = "returned"
    /\ sleeper.at = "sleeping"
    /\ sleeper' = sleep_or_stop_wake(sleeper)
    /\ UNCHANGED <<now, state, cache, session, delay, pc, call, prev, payloadVars,
                   signal, loop, login, status_dict>>

\* the control handler, on its own thread, receives ServiceControl::Stop;
\* where the loop was at the first request is kept with the loop
ServiceRequest ==
    /\ signal' = request_shutdown(signal, 2)     \* the handler's clone
    /\ \E r \in RequestInstants(sleeper) :
          sleeper' = IF sleeper.requested_at = -1
                     THEN [sleeper EXCEPT !.requested_at = r]
                     ELSE sleeper
    /\ loop' = IF loop.asked_at = "never" THEN [loop EXCEPT !.asked_at = pc] ELSE loop
    /\ signal' # signal
    /\ UNCHANGED <<now, state, cache, session, delay, pc, call, prev, payloadVars, login,
                   status_dict>>

SpecService == ServiceInit /\ [][CycleBegin \/ CycleEnd \/ ServiceSleepTest \/ ServiceSleepWake \/ ServiceRequest]_vars

---------------------------------------------------------------------------
(* mattermost/session.rs: the two login functions, and create_session of
   lib.rs which calls login until it succeeds *)

\* the body of an answer: not JSON at all, or a JSON object whose "id" is
\* absent (Value::Null), a number or a string
Bodies ==
    {[json |-> FALSE, id |-> [ty |-> "absent", v |-> ""]]}
        \cup {[json |-> TRUE, id |-> i] :
                 i \in {[ty |-> "absent", v |-> ""], [ty |-> "number", v |-> "7"],
                        [ty |-> "string", v |-> "u1"], [ty |-> "string", v |-> "u2"]}}

\* an answer with status 200: the Token header (-1: none) and the body
Reply(hdr, body) == [kind |-> "status", code |-> 200, token |-> hdr, body |-> body]

\* an answer that ureq reports as Err: no connection, or a status >= 400
Failure(r) ==
    [kind |-> r.kind, code |-> r.code, token |-> -1,
     body |-> [json |-> FALSE, id |-> [ty |-> "absent", v |-> ""]]]

\* answers to GET /api/v4/users/me
MeAnswers ==
    {Failure(Transport), Failure(Http(401)), Failure(Http(403)), Failure(Http(500))}
        \cup {Reply(-1, b) : b \in Bodies}

\* answers to POST /api/v4/users/login
LoginAnswers ==
    {Failure(Transport), Failure(Http(401)), Failure(Http(500))}
        \cup {Reply(h, b) : h \in Tokens \cup {-1}, b \in Bodies}

\* serde_json::Value::as_str: Some for a string only
as_str(idv) == IF idv.ty = "string" THEN [some |-> TRUE, s |-> idv.v]
               ELSE [some |-> FALSE, s |-> ""]

\* serde_json::Value::to_string: the JSON text of the value
Value_to_string(idv) ==
    IF idv.ty = "absent" THEN "null"
    ELSE IF idv.ty = "number" THEN idv.v
    ELSE "\"" \o idv.v \o "\""

\* Session::with_token
with_token(token) ==
    [kind |-> "token", base_uri |-> "https://mm", token |-> token, user |-> NoCred,
     password |-> NoCred]

\* Session::with_credentials
with_credentials(user_login, password) ==
    [kind |-> "credentials", base_uri |-> "https://mm", token |-> -1,
     user |-> user_login, password |-> password]

\* no LoggedSession
NoSession == [logged |-> FALSE]
SomeSession(x) == [logged |-> TRUE, s |-> x]

\* mutant: the id of the body is taken as it comes, string or not
SessionWithToken_login_any_id(self, a) ==
    IF self.base_uri = ""
    THEN [res |-> Err("ureq", 0), self |-> self, got |-> NoSession, wire |-> <<>>]
    ELSE LET x == Exchange("GET", "/api/v4/users/me", self.token, a) IN
    IF RespIsErr(a)
    THEN [res |-> Err("ureq", a.code), self |-> self, got |-> NoSession, wire |-> <<x>>]
    ELSE IF ~a.body.json
    THEN [res |-> Err("into_json", 0), self |-> self, got |-> NoSession, wire |-> <<x>>]
    ELSE [res |-> Ok(0),
          self |-> [self EXCEPT !.base_uri = "", !.token = -1],
          got |-> SomeSession([LoggedSession(self.token, NoCred, NoCred) EXCEPT
                                 !.base_uri = self.base_uri,
                                 !.user_id = Value_to_string(a.body.id)]),
          wire |-> <<x>>]

\* SessionWithToken::login against the answer a.  A base_uri left empty
\* makes no URL, and ureq fails before any request.  The fields of the
\* LoggedSession are evaluated in order: base_uri and token are taken out of
\* self before the id is looked at (mem::take leaves the empty string, and
\* for the token, a number here, -1).
SessionWithToken_login(self, a) ==
    IF self.base_uri = ""
    THEN [res |-> Err("ureq", 0), self |-> self, got |-> NoSession, wire |-> <<>>]
    ELSE LET x == Exchange("GET", "/api/v4/users/me", self.token, a) IN
    IF RespIsErr(a)
    THEN [res |-> Err("ureq", a.code), self |-> self, got |-> NoSession, wire |-> <<x>>]
    ELSE IF ~a.body.json
    THEN [res |-> Err("into_json", 0), self |-> self, got |-> NoSession, wire |-> <<x>>]
    ELSE IF ~as_str(a.body.id).some
    THEN [res |-> Err("Received id is not a string", 0),
          self |-> [self EXCEPT !.base_uri = "", !.token = -1],
          got |-> NoSession, wire |-> <<x>>]
    ELSE [res |-> Ok(0),
          self |-> [self EXCEPT !.base_uri = "", !.token = -1],
          got |-> SomeSession([LoggedSession(self.token, NoCred, NoCred) EXCEPT
                                 !.base_uri = self.base_uri,
                                 !.user_id = as_str(a.body.id).s]),
          wire |-> <<x>>]

\* SessionWithCredentials::login against the answer a
SessionWithCredentials_login(self, a) ==
    IF self.base_uri = ""
    THEN [res |-> Err("ureq", 0), self |-> self, got |-> NoSession, wire |-> <<>>]
    ELSE LET x == Exchange("POST", LoginPath, -1, a) IN
    IF RespIsErr(a)
    THEN [res |-> Err("ureq", a.code), self |-> self, got |-> NoSession, wire |-> <<x>>]
    ELSE IF a.token = -1
    THEN [res |-> Err("Login authentication failed", 0), self |-> self,
          got |-> NoSession, wire |-> <<x>>]
    ELSE IF ~a.body.json
    THEN [res |-> Err("into_json", 0), self |-> self, got |-> NoSession, wire |-> <<x>>]
    ELSE [res |-> Ok(0),
          self |-> [self EXCEPT !.base_uri = ""],
          got |-> SomeSession([LoggedSession(a.token, self.user, self.password) EXCEPT
                                 !.base_uri = self.base_uri,
                                 !.user_id = Value_to_string(a.body.id)]),
          wire |-> <<x>>]

\* BaseSession::login, dispatched on the Box<dyn BaseSession>
BaseSession_login(self, a) ==
    IF self.kind = "token" THEN SessionWithToken_login(self, a)
    ELSE SessionWithCredentials_login(self, a)

\* create_session: the session object built from the configuration, and the
\* loop entered; with secret_type Password and no user the function has
\* returned "Mattermost user is not defined" instead, before any login
LoginInit ==
    /\ status_dict = Ssids
    /\ EngineAtRest
    /\ call = NoCall
    /\ PayloadAtRest
    /\ signal = NoSignal
    /\ sleeper = NoSleep
    /\ loop = NoLoop
    /\ \E b \in {with_token(t) : t \in Tokens}
                  \cup {with_credentials("alice", "pw"), with_credentials("bob", "")} :
          \/ login = [NoLogin EXCEPT !.base = b, !.at = "login"]
          \/ /\ b.kind = "credentials"
             /\ login = [NoLogin EXCEPT !.res = Err("Mattermost user is not defined", 0),
                                        !.at = "no user"]

\* mutant: the result of login is returned whatever it is
LoginAttempt_return_any ==
    /\ login.at = "login"
    /\ \E a \in IF login.base.kind = "token" THEN MeAnswers ELSE LoginAnswers :
          LET r == BaseSession_login(login.base, a) IN
          /\ login' = [base |-> r.self, answer |-> a, res |-> r.res, got |-> r.got,
                       wire |-> r.wire, at |-> "logged"]
          /\ session' = IF r.res.ok THEN r.got.s ELSE session
    /\ UNCHANGED <<now, state, cache, delay, pc, call, prev, payloadVars,
                   signal, sleeper, loop, status_dict>>

\* let res = session.login(): Ok returns the session, Err is logged
LoginAttempt ==
    /\ login.at = "login"
    /\ \E a \in IF login.base.kind = "token" THEN MeAnswers ELSE LoginAnswers :
          LET r == BaseSession_login(login.base, a) IN
          /\ login' = [base |-> r.self, answer |-> a, res |-> r.res, got |-> r.got,
                       wire |-> r.wire, at |-> IF r.res.ok THEN "logged" ELSE "failed"]
          /\ session' = IF r.res.ok THEN r.got.s ELSE session
    /\ UNCHANGED <<now, state, cache, delay, pc, call, prev, payloadVars,
                   signal, sleeper, loop, status_dict>>

\* sleep(delay_duration), then the loop of create_session calls login again
LoginRetry ==
    /\ login.at = "failed"
    /\ now + delay <= MaxLoginSleeps * delay
    /\ now' = now + delay
    /\ login' = [login EXCEPT !.at = "login"]
    /\ UNCHANGED <<state, cache, session, delay, pc, call, prev, payloadVars,
                   signal, sleeper, loop, status_dict>>

SpecLogin == LoginInit /\ [][LoginAttempt \/ LoginRetry]_vars

---------------------------------------------------------------------------
(* The polling loop with the same wifi in sight at every poll, polls exactly
   delay apart, and pushes that may fail *)

\* what is remembered of the polls so far: the instant the last push attempt
\* returned, and the decision of the poll before the current one
LastAttempt(t, how) ==
    [cand |-> SteadyLocation, how |-> how, same |-> TRUE, infile |-> TRUE, at |-> t]

\* the location has just been pushed and recorded, at instant 0
SteadyInit ==
    /\ now = 0
    /\ state = MkState(SteadyLocation, 0)
    /\ cache = FileJson(state)
    /\ session \in InitSessions
    /\ delay \in {600, 1200}     \* 0 < 2*P < MAX_SECS_BEFORE_FORCE_UPDATE
    /\ pc = "returned"
    /\ call = NoCall
    /\ prev = LastAttempt(0, "none")
    /\ PayloadAtRest
    /\ ServiceAtRest

\* thread::sleep(delay_duration) and nothing else between two polls
SteadySleep ==
    /\ pc = "returned"
    /\ now + delay <= SteadyHorizon
    /\ now' = now + delay
    /\ pc' = "idle"
    /\ UNCHANGED <<state, cache, session, delay, call, prev, payloadVars, signal, sleeper, loop, login,
                   status_dict>>

\* one iteration of the loop: the same wifi is seen; update_status skips, or
\* pushes with any outcome of the send, the relogin and the write
SteadyPoll ==
    /\ pc = "idle"
    /\ \E r \in update_status(state, SteadyLocation, StatusFor(SteadyLocation),
                              session, cache, delay, now) :
            /\ state' = r.state
            /\ cache' = r.cache
            /\ session' = r.session
            /\ now' = r.now
            /\ call' = [cand |-> SteadyLocation, decision |-> r.decision, same |-> r.same,
                        elapsed_sec |-> r.elapsed_sec, res |-> r.res, wire |-> r.wire,
                        sres |-> r.sres, sent |-> r.sent]
            /\ prev' = LastAttempt(IF r.decision = "push" THEN r.now ELSE prev.at,
                                   call.decision)
    /\ pc' = "returned"
    /\ UNCHANGED <<delay, payloadVars, signal, sleeper, loop, login, status_dict>>

SpecSteady == SteadyInit /\ [][SteadyPoll \/ SteadySleep]_vars

---------------------------------------------------------------------------
(* state.rs: the state file as text.  set_location writes
   serde_json::to_string(&self), State::new reads it back with
   serde_json::from_str::<State>.  A text is the sequence of its characters. *)

\* the strings of at most n characters among those that matter in a wifi
\* substring: the quote, the backslash, the letter of the escape \n, the line
\* feed (a control character), and the closing brace of the JSON syntax
RECURSIVE StringsUpTo(_)
StringsUpTo(n) ==
    IF n = 0 THEN {<<>>}
    ELSE StringsUpTo(n - 1)
            \cup {Append(w, c) : w \in {x \in StringsUpTo(n - 1) : Len(x) = n - 1},
                                 c \in {"\"", "\\", "n", "\n", "}"}}

\* mutant: the backslash is written as it is
escape_char_plain_backslash(c) ==
    IF c = "\"" THEN <<"\\", "\"">>
    ELSE IF c = "\n" THEN <<"\\", "n">>
    ELSE <<c>>

\* serde_json's string escaping of one character
escape_char(c) ==
    IF c = "\"" THEN <<"\\", "\"">>
    ELSE IF c = "\\" THEN <<"\\", "\\">>
    ELSE IF c = "\n" THEN <<"\\", "n">>
    ELSE <<c>>

\* the inside of a JSON string literal
RECURSIVE escape_str(_)
escape_str(w) == IF w = <<>> THEN <<>> ELSE escape_char(Head(w)) \o escape_str(Tail(w))

\* a natural number in decimal
RECURSIVE NatToChars(_)
NatToChars(n) ==
    IF n < 10 THEN <<Digits[n + 1]>> ELSE NatToChars(n \div 10) \o <<Digits[(n % 10) + 1]>>

\* the pieces of the text of a State
Txt ==
    [location |-> <<"{", "\"", "l", "o", "c", "a", "t", "i", "o", "n", "\"", ":">>,
     Unknown |-> <<"\"", "U", "n", "k", "n", "o", "w", "n", "\"">>,
     Known |-> <<"{", "\"", "K", "n", "o", "w", "n", "\"", ":">>,
     lastchange_timestamp |->
        <<",", "\"", "l", "a", "s", "t", "c", "h", "a", "n", "g", "e", "_",
          "t", "i", "m", "e", "s", "t", "a", "m", "p", "\"", ":">>]

\* serde_json::to_string(&self) of a State: the location, with the string of
\* a Known as a JSON string literal, and the timestamp, an i64 in decimal
to_string(self) ==
    LET ts == self.lastchange_timestamp IN
    Txt.location
        \o (IF self.location.tag = "Known"
            THEN Txt.Known \o <<"\"">> \o escape_str(self.location.ssid) \o <<"\"", "}">>
            ELSE Txt.Unknown)
        \o Txt.lastchange_timestamp
        \o (IF ts < 0 THEN <<"-">> \o NatToChars(0 - ts) ELSE NatToChars(ts)) \o <<"}">>

\* does the text start with the piece
StartsWith(t, piece) == Len(t) >= Len(piece) /\ SubSeq(t, 1, Len(piece)) = piece
Drop(t, n) == SubSeq(t, n + 1, Len(t))

\* the inside of a JSON string literal, up to its closing quote: the string
\* read and the rest of the text; a raw control character, an unknown escape
\* or the end of the text is an error
RECURSIVE parse_str(_, _)
parse_str(t, acc) ==
    IF t = <<>> THEN [ok |-> FALSE, s |-> acc, rest |-> <<>>]
    ELSE IF Head(t) = "\"" THEN [ok |-> TRUE, s |-> acc, rest |-> Tail(t)]
    ELSE IF Head(t) = "\n" THEN [ok |-> FALSE, s |-> acc, rest |-> t]
    ELSE IF Head(t) = "\\"
    THEN IF Len(t) < 2 THEN [ok |-> FALSE, s |-> acc, rest |-> <<>>]
         ELSE IF t[2] = "\"" THEN parse_str(Drop(t, 2), Append(acc, "\""))
         ELSE IF t[2] = "\\" THEN parse_str(Drop(t, 2), Append(acc, "\\"))
         ELSE IF t[2] = "n" THEN parse_str(Drop(t, 2), Append(acc, "\n"))
         ELSE [ok |-> FALSE, s |-> acc, rest |-> t]
    ELSE parse_str(Tail(t), Append(acc, Head(t)))

\* the rest of the text after the location: the timestamp, an i64 in decimal
\* that fills the text up to the closing brace
parse_tail(l, t) ==
    IF StartsWith(t, Txt.lastchange_timestamp) /\ t[Len(t)] = "}"
    THEN LET n == SubSeq(t, Len(Txt.lastchange_timestamp) + 1, Len(t) - 1)
             neg == n # <<>> /\ n[1] = "-"
             ds == IF neg THEN Tail(n) ELSE n
         IN IF ds # <<>> /\ (\A i \in 1..Len(ds) : IsDigit(ds[i])) /\ Len(ds) <= 18
            THEN [ok |-> TRUE,
                  state |-> MkState(l, IF neg THEN 0 - DecimalValue(ds)
                                       ELSE DecimalValue(ds))]
            ELSE [ok |-> FALSE, state |-> MkState(Unknown, 0)]
    ELSE [ok |-> FALSE, state |-> MkState(Unknown, 0)]

\* serde_json::from_str::<State> of a text in the layout to_string writes
\* (the only texts the program puts in the file), whole or cut short
from_str(t) ==
    IF ~StartsWith(t, Txt.location)
    THEN [ok |-> FALSE, state |-> MkState(Unknown, 0)]
    ELSE LET r == Drop(t, Len(Txt.location)) IN
         IF StartsWith(r, Txt.Unknown)
         THEN parse_tail(Unknown, Drop(r, Len(Txt.Unknown)))
         ELSE IF StartsWith(r, Txt.Known \o <<"\"">>)
         THEN LET w == parse_str(Drop(r, Len(Txt.Known) + 1), <<>>) IN
              IF w.ok /\ w.rest # <<>> /\ w.rest[1] = "}"
              THEN parse_tail(Known(w.s), Tail(w.rest))
              ELSE [ok |-> FALSE, state |-> MkState(Unknown, 0)]
         ELSE [ok |-> FALSE, state |-> MkState(Unknown, 0)]

\* the state file holding the text t
FileText(t) == [kind |-> "text", text |-> t]

\* State::new on a file kept as text
State_new_text(file) ==
    IF file.kind = "text" /\ from_str(file.text).ok
    THEN from_str(file.text).state
    ELSE MkState(Unknown, 0)

\* State::set_location on a file kept as text, the clock showing t; a write
\* cut short leaves in the file all of the text but its last character
set_location_text(self, location, file, t) ==
    LET s == MkState(location, t)
        serialized == to_string(s)
    IN {[res |-> Ok(0), state |-> s, cache |-> FileText(serialized)],
        [res |-> Err("Writing to cache file", 0), state |-> s, cache |-> file]}
       \cup {[res |-> Err("Writing to cache file", 0), state |-> s,
              cache |-> FileText(SubSeq(serialized, 1, Len(serialized) - 1))]}

\* call.written is the record of the last write that succeeded, if the file
\* still holds it; the clock readings are before 1970 and after
StoreInit ==
    /\ now \in {-7, 3601}
    /\ cache = FileAbsent
    /\ state = State_new_text(cache)
    /\ session = LoggedSession(0, NoCred, NoCred)
    /\ delay = 60
    /\ pc = "idle"
    /\ call = [op |-> "none", res |-> Ok(0), written |-> [some |-> FALSE]]
    /\ prev = NoPrev
    /\ PayloadAtRest
    /\ ServiceAtRest

\* state.set_location(location, &cache), for Known(s) of any string s
StoreSet ==
    /\ \E l \in {Known(w) : w \in StringsUpTo(MaxSsidLen)} :
        \E r \in set_location_text(state, l, cache, now) :
            /\ state' = r.state
            /\ cache' = r.cache
            /\ call' = [op |-> "set", res |-> r.res,
                        written |-> IF r.res.ok THEN [some |-> TRUE, state |-> r.state]
                                    ELSE IF r.cache = cache THEN call.written
                                    ELSE [some |-> FALSE]]
    /\ UNCHANGED <<now, session, delay, pc, prev, payloadVars, signal, sleeper, loop, login,
                   status_dict>>

\* State::new(&cache): the record in memory is replaced by what the file gives
StoreLoad ==
    /\ call.op # "new"
    /\ state' = State_new_text(cache)
    /\ call' = [call EXCEPT !.op = "new", !.res = Ok(0)]
    /\ UNCHANGED <<now, cache, session, delay, pc, prev, payloadVars, signal, sleeper, loop, login,
                   status_dict>>

\* the clock moves
StoreTick ==
    /\ now' \in {-7, 3601} \ {now}
    /\ UNCHANGED <<state, cache, session, delay, pc, call, prev, payloadVars, signal, sleeper, loop, login,
                   status_dict>>

SpecStore == StoreInit /\ [][StoreSet \/ StoreLoad \/ StoreTick]_vars

---------------------------------------------------------------------------
(* Properties *)

\* the step in which one update_status call runs from entry to return
Called == pc = "idle" /\ pc' = "returned"

\* elapsed as the claims mean it: the clock minus the stored timestamp
Elapsed == now - state.lastchange_timestamp

\* C1: over any sequence of update_status calls the stored location (in
\* memory and in the state file) changes only in a call whose push succeeded,
\* and then to the candidate of that call; so it is always the loaded location
\* or the candidate of a successful push, never the candidate of a failed one.
C1_LocationOnlyFromSuccessfulPush ==
    [][ /\ state'.location # state.location
            => call'.sent /\ state'.location = call'.cand
        /\ (cache'.kind = "json" /\ cache' # cache)
            => call'.sent /\ cache'.location = call'.cand
      ]_vars

\* a push of a candidate other than the stored known location has just failed
C1_Witness ==
    /\ pc = "returned"
    /\ call.decision = "push"
    /\ ~call.sent
    /\ call.cand # state.location
    /\ state.location \in KnownLocations

C3_UnknownIsNoOp ==
    [][ (Called /\ call'.cand = Unknown)
            => /\ call'.res = Ok(0)
               /\ call'.wire = <<>>
               /\ state' = state
               /\ cache' = cache
               /\ session' = session
      ]_vars

\* Unknown has just been observed with a known location stored for more than
\* MAX_SECS_BEFORE_FORCE_UPDATE
C3_Witness ==
    /\ pc = "returned"
    /\ call.cand = Unknown
    /\ state.location \in KnownLocations
    /\ Elapsed > MAX_SECS_BEFORE_FORCE_UPDATE

\* C4: a known candidate equal to the stored location, with
\* 2*delay < elapsed <= 3600, is skipped: nothing is sent and the record and
\* its timestamp stay as they were (so the next call under the same
\* condition is skipped as well).
C4_QuietWindowSkips ==
    [][ (/\ Called
         /\ call'.cand # Unknown
         /\ call'.cand = state.location
         /\ 2 * delay < Elapsed
         /\ Elapsed <= 3600)
            => /\ call'.decision = "skip"
               /\ call'.res = Ok(0)
               /\ call'.wire = <<>>
               /\ state' = state
               /\ cache' = cache
      ]_vars

\* a call has just been skipped at elapsed = 3600 exactly
C4_Witness ==
    /\ pc = "returned"
    /\ call.decision = "skip"
    /\ call.cand = state.location
    /\ call.elapsed_sec = 3600
    /\ Elapsed = 3600

\* the call that has just returned went on to push: its first request is the
\* PUT of the custom status
Pushed(c) ==
    /\ c.decision = "push"
    /\ Len(c.wire) >= 1
    /\ c.wire[1].method = "PUT"
    /\ c.wire[1].path = CustomStatusPath

\* C5: a known candidate equal to the stored location, with
\* elapsed <= 2*delay (equality included), is pushed.
C5_SmallElapsedPushes ==
    [][ (/\ Called
         /\ call'.cand # Unknown
         /\ call'.cand = state.location
         /\ Elapsed <= 2 * delay)
            => Pushed(call')
      ]_vars

\* with delay 60, a push has just been made at elapsed = 120 = 2*delay for
\* the stored location
C5_Witness ==
    /\ pc = "returned"
    /\ delay = 60
    /\ call.same
    /\ call.elapsed_sec = 120
    /\ Pushed(call)

\* C6: a known candidate equal to the stored location, with elapsed > 3600,
\* is pushed, for every poll interval.
C6_ForcedResyncPushes ==
    [][ (/\ Called
         /\ call'.cand # Unknown
         /\ call'.cand = state.location
         /\ Elapsed > 3600)
            => Pushed(call')
      ]_vars

\* with delay 60, a push has just been made at elapsed = 3601 for the stored
\* location
C6_Witness ==
    /\ pc = "returned"
    /\ delay = 60
    /\ call.same
    /\ call.elapsed_sec = 3601
    /\ Pushed(call)

\* C7: a known candidate that differs from the stored location (the default
\* record Unknown/0 included) is pushed, whatever the elapsed time and the
\* poll interval are.
C7_ChangedLocationPushes ==
    [][ (/\ Called
         /\ call'.cand # Unknown
         /\ call'.cand # state.location)
            => Pushed(call')
      ]_vars

\* no state file, the default record, and a known location has just been
\* pushed at an elapsed time inside the quiet window (the push failed, so the
\* default record is still there)
C7_Witness ==
    /\ pc = "returned"
    /\ cache = FileAbsent
    /\ state = MkState(Unknown, 0)
    /\ call.cand = Known("home")
    /\ ~call.same
    /\ Pushed(call)
    /\ no_update_needed(delay, Elapsed)

\* C8: one send_at call issues at most one relogin and at most two sends of
\* the payload, whatever the server answers.
C8_RetryBudget ==
    pc = "returned" => Logins(call.wire) <= 1 /\ Sends(call.wire) <= 2

\* the budget is used up: a send, a relogin, a resend, and the resend is
\* answered 401 again
C8_Witness ==
    /\ pc = "returned"
    /\ Len(call.wire) = 3
    /\ Logins(call.wire) = 1
    /\ Sends(call.wire) = 2
    /\ call.wire[3].resp = Http(401)

\* the first send of the call was answered 401
FirstRejected401(c) ==
    /\ Len(c.wire) >= 1
    /\ c.wire[1].method = "PUT"
    /\ c.wire[1].resp = Http(401)

\* what send_at returns for the answer r to its last send
OutcomeOf(r) ==
    IF r.kind = "status" /\ r.code < 400
    THEN Ok(r.code)
    ELSE Err("HTTPRequestError", r.code)

\* the login exchange x did not yield a token
LoginFailed(x) == x.resp.kind = "io" \/ x.resp.code >= 400 \/ x.resp.token = -1

\* after a first 401: one relogin, then one resend whose outcome is the result
OneReloginOneResend(c) ==
    /\ Len(c.wire) = 3
    /\ c.wire[2].method = "POST"
    /\ c.wire[3].method = "PUT"
    /\ c.sres = OutcomeOf(c.wire[3].resp)

\* C9 as stated: first send rejected with 401 and credentials in the
\* session: exactly one relogin, then exactly one resend, whose outcome is
\* returned as is.
C9_Original ==
    (pc = "returned" /\ FirstRejected401(call) /\ session.user # NoCred)
        => OneReloginOneResend(call)

\* C9 amended: first send rejected with 401, credentials in the session and
\* the relogin succeeds: exactly one relogin, then exactly one resend; the
\* outcome of the resend is returned as is (a 401 on it as an HTTP request
\* error, with no second relogin and no third send).
C9_ReloginThenResend ==
    (/\ pc = "returned"
     /\ FirstRejected401(call)
     /\ session.user # NoCred
     /\ Len(call.wire) >= 2
     /\ ~LoginFailed(call.wire[2]))
        => OneReloginOneResend(call)

\* with credentials: 401, a successful relogin, and the resend is answered
\* 401 again, which comes back as an HTTP request error
C9_Witness ==
    /\ pc = "returned"
    /\ FirstRejected401(call)
    /\ session.user # NoCred
    /\ Len(call.wire) = 3
    /\ ~LoginFailed(call.wire[2])
    /\ call.wire[3].resp = Http(401)
    /\ call.sres = Err("HTTPRequestError", 401)
    /\ ~call.res.ok

\* C10: first send rejected with 401 and the relogin fails: send_at returns
\* the login error, not the 401, and the payload is not sent again.
C10_LoginErrorPropagated ==
    (/\ pc = "returned"
     /\ FirstRejected401(call)
     /\ Len(call.wire) >= 2
     /\ call.wire[2].method = "POST"
     /\ LoginFailed(call.wire[2]))
        => /\ call.sres.err = "LoginError"
           /\ Sends(call.wire) = 1
           /\ Len(call.wire) = 2

\* 401, then the login answered without a Token header: the login error is
\* what came back
C10_Witness ==
    /\ pc = "returned"
    /\ FirstRejected401(call)
    /\ Len(call.wire) = 2
    /\ call.wire[2].resp = Http(200)
    /\ call.sres.err = "LoginError"

\* the first send of the call failed otherwise than with a 401: another
\* status >= 400, or no answer at all
FirstFailedOtherwise(c) ==
    /\ Len(c.wire) >= 1
    /\ c.wire[1].method = "PUT"
    /\ RespIsErr(c.wire[1].resp)
    /\ c.wire[1].resp # Http(401)

\* C11: when the first send fails with a status other than 401 or with a
\* transport failure, send_at returns that error at once: no relogin is
\* attempted and the payload has been sent exactly once.
C11_OtherErrorsReturnedAtOnce ==
    (pc = "returned" /\ FirstFailedOtherwise(call))
        => /\ call.sres = Err("HTTPRequestError", call.wire[1].resp.code)
           /\ Logins(call.wire) = 0
           /\ Sends(call.wire) = 1
           /\ Len(call.wire) = 1

\* a session with credentials whose first send was answered 500: the error
\* came back with no relogin
C11_Witness ==
    /\ pc = "returned"
    /\ session.user # NoCred
    /\ Len(call.wire) = 1
    /\ call.wire[1].resp = Http(500)
    /\ call.sres = Err("HTTPRequestError", 500)
    /\ ~call.res.ok

\* C12 as stated: in every poll cycle the timestamp of the stored record
\* changes if and only if that cycle performed a push that succeeded.
C12_Original ==
    [][ Called
            => ((state'.lastchange_timestamp # state.lastchange_timestamp)
                    <=> (call'.decision = "push" /\ call'.sent))
      ]_vars

\* C12 amended: in every poll cycle the timestamp of the stored record
\* changes only if that cycle performed a push that succeeded, and a cycle
\* whose push succeeded sets it to the clock reading taken when the record is
\* stored; a skip, an Unknown observation and a failed push leave it as it was.
C12_TimestampSetBySuccessfulPush ==
    [][ Called
            => /\ (state'.lastchange_timestamp # state.lastchange_timestamp)
                      => (call'.decision = "push" /\ call'.sent)
               /\ call'.sent => state'.lastchange_timestamp = now'
               /\ (call'.decision \in {"noop", "skip"} \/ ~call'.sent)
                      => state'.lastchange_timestamp = state.lastchange_timestamp
      ]_vars

\* the stored location has just been pushed again, successfully, some time
\* after it was recorded: the timestamp moved to the clock reading
C12_Witness ==
    /\ pc = "returned"
    /\ call.decision = "push"
    /\ call.sent
    /\ call.same
    /\ call.elapsed_sec > 0
    /\ state.lastchange_timestamp = now

\* C13: with an unchanged known location, every push succeeding, a poll
\* interval P > 0 with 2*P < 3600 and polls exactly P apart, the small-elapsed
\* re-send happens only within the first two poll cycles after the location
\* was recorded; every later cycle skips until more than 3600 seconds have
\* elapsed.  (The location was recorded at instant 0, so the cycle at instant
\* now is the (now / delay)-th.)
C13_SkipsAfterTwoCycles ==
    (/\ pc = "returned"
     /\ call.decision # "none"
     /\ 2 * delay < now
     /\ now <= MAX_SECS_BEFORE_FORCE_UPDATE)
        => call.decision = "skip"

\* the cycle that has just returned observed the candidate of the cycle
\* before, whose push had failed
AfterFailedPush ==
    /\ pc = "returned"
    /\ prev.how = "failed"
    /\ call.cand = prev.cand

\* C14 as stated: after a poll cycle whose push failed, the next poll cycle
\* observing the same candidate attempts the push again (it does not skip),
\* whatever time has passed.
C14_Original == AfterFailedPush => call.decision = "push"

\* C14 amended: after a poll cycle whose push failed, the next poll cycle
\* observing the same candidate attempts the push again, whatever time has
\* passed, when the candidate differs from the stored location; when the
\* failed push was a re-send of the stored location, the next cycle still
\* finds that location stored and attempts the push again unless the elapsed
\* time is then inside the quiet window.
C14_RetryAfterFailedPush ==
    /\ (AfterFailedPush /\ ~prev.same) => call.decision = "push"
    /\ (AfterFailedPush /\ prev.same)
           => /\ call.same
              /\ call.decision = "push" <=> ~no_update_needed(delay, call.elapsed_sec)

\* the push of a new location failed on the relogin, and the next cycle,
\* which sees the same wifi, has sent the status again
C14_Witness ==
    /\ AfterFailedPush
    /\ ~prev.same
    /\ call.decision = "push"
    /\ Len(call.wire) >= 1
    /\ call.sent

\* the cycle that has just returned is the first one after a restart, and it
\* observed the candidate whose push had succeeded when the process stopped
\* before the record was written
AfterStopAndRestart ==
    /\ pc = "returned"
    /\ prev.how = "stopped"
    /\ call.cand = prev.cand

\* C15 as stated: if the process stops after a push succeeded but before the
\* record was written, then after restart the first poll cycle observing the
\* same candidate pushes it again, and the record then stored (once that push
\* has succeeded) has that location.
C15_Original ==
    AfterStopAndRestart
        => /\ call.decision = "push"
           /\ call.sent => state.location = prev.cand

\* C15 amended: the first cycle after the restart that observes the same
\* candidate pushes it again when the state file did not already hold that
\* location, and once that push has succeeded the record has that location
\* (in the state file too when the write succeeded); when the state file
\* already held that location, the record read back has it and the cycle
\* pushes only if the elapsed time is outside the quiet window.
C15_RepushAfterRestart ==
    /\ (AfterStopAndRestart /\ ~prev.infile)
           => /\ call.decision = "push"
              /\ call.sent => state.location = prev.cand
              /\ (call.sent /\ call.res.ok)
                     => (cache.kind = "json" /\ cache.location = prev.cand)
    /\ (AfterStopAndRestart /\ prev.infile)
           => /\ call.same
              /\ state.location = prev.cand
              /\ call.decision = "push" <=> ~no_update_needed(delay, call.elapsed_sec)

\* stopped after the push of a location the state file did not hold; after
\* the restart the same wifi was seen, pushed again and recorded
C15_Witness ==
    /\ AfterStopAndRestart
    /\ ~prev.infile
    /\ call.sent
    /\ call.res.ok
    /\ state.location = prev.cand
    /\ cache = FileJson(state)

\* what State::new is to return for the state file f
ExpectedState(f) ==
    IF f.kind = "json"
    THEN [location |-> f.location, lastchange_timestamp |-> f.lastchange_timestamp]
    ELSE [location |-> Unknown, lastchange_timestamp |-> 0]

\* C20: State::new never returns an error because of the state file: with an
\* absent, unreadable or unparsable file the process starts with the default
\* record (Unknown, timestamp 0), with a valid record in the file it starts
\* with that record.
C20_StateNewNeverFails ==
    call.decision = "start"
        => /\ call.res.ok
           /\ pc = "idle"
           /\ state = ExpectedState(cache)
           /\ cache.kind \in {"absent", "unreadable", "corrupt"} => state = MkState(Unknown, 0)

\* the process has started on a state file that does not decode (a write of
\* the record had failed half way) and holds the default record
C20_Witness ==
    /\ call.decision = "start"
    /\ pc = "idle"
    /\ cache.kind = "corrupt"
    /\ state.location = Unknown
    /\ state.lastchange_timestamp = 0

\* C18: relogin on a session built from a static token (no credentials)
\* issues no request, returns success (so the resend follows), and leaves the
\* token, the user id and the base URI of the session as they were.
C18_StaticTokenReloginIsNoOp ==
    [][ (Called /\ session.user = NoCred /\ session.password = NoCred
                /\ FirstRejected401(call'))
            => /\ Logins(call'.wire) = 0
               /\ call'.sres.err # "LoginError"
               /\ Len(call'.wire) = 2
               /\ call'.wire[2].method = "PUT"
               /\ session'.token = session.token
               /\ session'.user_id = session.user_id
               /\ session'.base_uri = session.base_uri
               /\ session' = session
      ]_vars

\* a static-token session: 401, no login request, and the resend, with the
\* same token, was accepted
C18_Witness ==
    /\ pc = "returned"
    /\ session.user = NoCred
    /\ FirstRejected401(call)
    /\ Len(call.wire) = 2
    /\ call.wire[2].token = session.token
    /\ call.wire[2].resp = Http(200)
    /\ call.sent

\* the second exchange of the call c is a login that returned a token
ReloginSucceeded(c) ==
    /\ Len(c.wire) >= 2
    /\ c.wire[2].method = "POST"
    /\ ~LoginFailed(c.wire[2])

\* C19: after a successful relogin the session holds the token the login
\* returned, and every later send, starting with the resend of the same
\* call, carries it: the resend carries the returned token, and the first
\* send of every call carries the token the session holds.
C19_NewTokenUsedFromResendOn ==
    [][ Called
            => /\ ReloginSucceeded(call')
                    => /\ session'.token = call'.wire[2].resp.token
                       /\ Len(call'.wire) = 3
                       /\ call'.wire[3].method = "PUT"
                       /\ call'.wire[3].token = call'.wire[2].resp.token
               /\ ~ReloginSucceeded(call') => session'.token = session.token
               /\ Len(call'.wire) >= 1
                    => /\ call'.wire[1].method = "PUT"
                       /\ call'.wire[1].token = session.token
      ]_vars

\* a relogin that returned a token other than the rejected one: the resend
\* carries the new token and the session holds it
C19_Witness ==
    /\ pc = "returned"
    /\ ReloginSucceeded(call)
    /\ call.wire[2].resp.token # call.wire[1].token
    /\ call.wire[3].token = call.wire[2].resp.token
    /\ session.token = call.wire[2].resp.token

\* the value of field k in the body b, as a set (empty when the field is absent)
Field(b, k) == {p[2] : p \in {q \in b : q[1] = k}}

\* C16: every custom-status payload sent carries an expiry only if the
\* configured expiry time is strictly after the time of the send, the payload
\* object being reused from one cycle to the next: a payload sent at or after
\* the configured time carries no expiry and no duration kind.
C16_NoExpiryInThePast ==
    (pc = "returned" /\ sent.some)
        => LET configured == parse_from_hmstr(expires_cfg, sent.at.day) IN
           /\ \A e \in Field(sent.body, "expires_at") :
                  configured.some /\ Before(sent.at, configured)
           /\ (configured.some /\ ~Before(sent.at, configured))
                  => /\ Field(sent.body, "expires_at") = {}
                     /\ Field(sent.body, "duration") = {}

\* the time of day configured, on the local day of the iteration
ConfiguredToday == parse_from_hmstr(expires_cfg, local.day)

\* the payload carries an expiry and the duration kind "date_and_time"
HasExpiry(m) == m.expires_at.some /\ m.duration = "date_and_time"

\* C17 as stated: on a fresh payload, expires_at with a parsable time sets
\* the expiry and the duration kind "date_and_time" if and only if the
\* current local time is strictly before that time on the current local day;
\* the expiry is never moved to the next day.
C17_Original ==
    [][ (Called /\ mmstatus = FreshStatus /\ ConfiguredToday.some)
            => /\ HasExpiry(mmstatus') <=> Before(local, ConfiguredToday)
               /\ mmstatus'.expires_at.some => mmstatus'.expires_at = ConfiguredToday
      ]_vars

\* C17 amended: on a fresh payload, expires_at with a parsable time sets the
\* expiry and the duration kind "date_and_time" if and only if the current
\* local time is strictly before that time on the current local day and that
\* local time exists (no daylight-saving change skips it); otherwise the
\* payload keeps no expiry and no duration kind.  The expiry is never moved
\* to the next day.
C17_ExpirySetIffStrictlyBefore ==
    [][ (Called /\ mmstatus = FreshStatus /\ ConfiguredToday.some)
            => /\ HasExpiry(mmstatus')
                    <=> (Before(local, ConfiguredToday) /\ ~NonexistentLocal(ConfiguredToday))
               /\ mmstatus'.expires_at.some => mmstatus'.expires_at = ConfiguredToday
               /\ ~HasExpiry(mmstatus') => mmstatus' = FreshStatus
      ]_vars

\* at 17:59 the expiry of 18:00 of the same day has been set and the payload
\* sent with it
C17_Witness ==
    /\ pc = "returned"
    /\ local.hm = 1079
    /\ HasExpiry(mmstatus)
    /\ mmstatus.expires_at = SomeDateTime(local.day, 1080)
    /\ sent.some
    /\ Field(sent.body, "expires_at") = {mmstatus.expires_at}

---------------------------------------------------------------------------
(* The record in memory and the record in the state file *)

\* the record in memory is the record a State::new on the state file would load
InMemoryIsOnFile == state = StateNew(cache)

\* the call attempted to write the state file and the write failed
WriteFailed(c) == c.sent /\ ~c.res.ok

\* C30 as stated: after every return of update_status (success or error) the
\* record in memory (location and timestamp) equals the record in the state
\* file, for every combination of push outcome and file-write outcome.
C30_Original ==
    (pc = "returned" /\ call.decision # "none") => InMemoryIsOnFile

\* C30 amended: a call of update_status that starts with the record in memory
\* equal to the record in the state file returns with the two equal again
\* whenever it did not fail to write the file (a skip, an Unknown observation,
\* a failed push, a successful push followed by a successful write); when the
\* write fails, the record in memory holds the pushed location with the new
\* timestamp, while the file keeps its previous content or is left unreadable.
C30_MemoryIsFileUnlessWriteFails ==
    [][ (Called /\ InMemoryIsOnFile)
            => /\ ~WriteFailed(call') => (state' = StateNew(cache'))
               /\ WriteFailed(call')
                      => /\ state' = MkState(call'.cand, now')
                         /\ cache' \in {cache, FileCorrupt}
      ]_vars

\* a push went through, the write that followed failed, and the record in
\* memory is no longer the record of the file
C30_Witness ==
    /\ pc = "returned"
    /\ call.decision = "push"
    /\ WriteFailed(call)
    /\ state.location = call.cand
    /\ state # StateNew(cache)

---------------------------------------------------------------------------
(* The time of day read from schedule.expires_at *)

\* what C28 expects of each configured string: the hour and the minute, or
\* <<>> where it expects no time at all
C28_HourMinute(cfg) ==
    IF ~cfg.some THEN <<>>
    ELSE CASE cfg.s = <<"1", "8", ":", "0", "0">> -> <<18, 0>>
           [] cfg.s = <<"0", "7", ":", "0", "1">> -> <<7, 1>>
           [] cfg.s = <<"2", ":", "3", "0">> -> <<2, 30>>
           [] cfg.s = <<"9", ":", "4", "5", ":", "3", "0">> -> <<9, 45>>
           [] cfg.s = <<"8">> -> <<8, 0>>
           [] cfg.s = <<"2", "3", ":">> -> <<23, 0>>
           [] cfg.s = <<"1", "8", ":", "3", "O">> -> <<18, 0>>
           [] cfg.s = <<"b", "i", "i", "i">> -> <<>>
           [] cfg.s = <<":", "1", "2", ":", "3", "0">> -> <<>>
           [] cfg.s = <<"2", "4", ":", "0", "0">> -> <<>>
           [] cfg.s = <<"7", ":", "7", "5">> -> <<>>

\* C28: parse_from_hmstr applied to "HH:MM" returns today's date at HH:MM:00;
\* a missing or unparsable minute part is taken as 0; an absent string or an
\* unparsable hour part returns no time at all, so that no expiry is ever set
\* from it; an hour above 23 or a minute above 59 also returns no time.
C28_ParsedTimeOfDay ==
    [][ Called
            => LET e == C28_HourMinute(expires_cfg) IN
               /\ ConfiguredToday = IF e = <<>> THEN NoDateTime
                                    ELSE SomeDateTime(local.day, e[1] * 60 + e[2])
               /\ e = <<>> => (mmstatus' = FreshStatus /\ ~HasExpiry(mmstatus'))
               /\ (e # <<>> /\ local.hm < e[1] * 60 + e[2] /\ local.day = 0)
                      => mmstatus'.expires_at = SomeDateTime(local.day, e[1] * 60 + e[2])
      ]_vars

\* at 17:59 the iteration ran with "18:3O" configured: the minute part does
\* not parse, and the expiry was set at 18:00
C28_Witness ==
    /\ pc = "returned"
    /\ expires_cfg = SomeString(<<"1", "8", ":", "3", "O">>)
    /\ local = SomeDateTime(0, 1079)
    /\ mmstatus.expires_at = SomeDateTime(0, 1080)

---------------------------------------------------------------------------
(* The shutdown signal *)

\* request_shutdown has been called on handle h or on a handle of its family
AskedOf(h) == \E g \in call.asked : call.family[g] = call.family[h]

\* C24: a ShutdownSignal starts not requested; once request_shutdown has been
\* called on the signal or on any of its clones, is_shutdown_requested returns
\* true on the signal and on every clone in every later state (no operation
\* resets it).
C24_RequestedOnAllClonesForever ==
    /\ [](\A h \in DOMAIN signal.handles :
              AskedOf(h) => is_shutdown_requested(signal, h))
    /\ [][ call'.op = "new" => ~is_shutdown_requested(signal', call'.handle) ]_vars
    /\ [][ \A h \in DOMAIN signal.handles :
              is_shutdown_requested(signal, h) => is_shutdown_requested(signal', h) ]_vars

\* shutdown was requested on a clone made before the request; the signal it
\* was cloned from and a clone made after the request both read it as
\* requested, and a second signal does not
C24_Witness ==
    /\ Len(signal.handles) = 4
    /\ call.family = <<1, 1, 3, 1>>
    /\ call.asked = {2}
    /\ call.op = "clone"
    /\ is_shutdown_requested(signal, 1)
    /\ is_shutdown_requested(signal, 4)
    /\ ~is_shutdown_requested(signal, 3)

---------------------------------------------------------------------------
(* sleep_or_stop *)

\* the step in which sleep_or_stop returns
SleepReturns == sleeper.at = "test" /\ sleeper'.at = "done"

\* C25: sleep_or_stop(d) always terminates; it returns true if shutdown was
\* requested before or during the wait, exiting at the next 500 ms check
\* instead of waiting for the rest of d, and it returns false only if the
\* whole duration d elapsed and no shutdown was requested before it returned.
C25_SleepOrStop ==
    /\ [](sleeper.at = "test" => <>(sleeper.at = "done"))
    /\ [][ SleepReturns
              => /\ sleeper'.ret = (sleeper.requested_at # -1)
                 /\ sleeper'.ret = TRUE
                        => /\ sleeper'.clock - sleeper.requested_at <= SLEEP_CHUNK
                           /\ sleeper'.clock <= sleeper.duration
                 /\ sleeper'.ret = FALSE
                        => /\ sleeper'.clock = sleeper.duration
                           /\ sleeper'.remaining = 0
         ]_vars

\* sleep_or_stop(1700), shutdown requested one millisecond into the second
\* chunk: it returned true after 1000 ms, 700 ms before the end
C25_Witness ==
    /\ sleeper.at = "done"
    /\ sleeper.duration = 1700
    /\ sleeper.requested_at = 501
    /\ sleeper.ret = TRUE
    /\ sleeper.clock = 1000
    /\ sleeper.remaining = 700

---------------------------------------------------------------------------
(* The polling loop and the errors of a poll cycle *)

\* the step in which one process_one_iteration runs from entry to return
Iterated == pc = "idle" /\ pc' # "idle"

\* the update_status call of the iteration returned an error: of the send,
\* of the relogin or of the write of the state file
CycleFailed(c) == c.decision # "none" /\ ~c.res.ok

\* C22: no error raised inside a poll cycle by the send, the relogin or the
\* persist step terminates the polling loop: the error is logged,
\* process_one_iteration returns Ok, and the loop proceeds to the next sleep
\* and poll cycle (with a delay of 0 the loop runs a single cycle and ends
\* after it, whatever its outcome).
C22_CycleErrorsDoNotEndTheLoop ==
    /\ [][ (Iterated /\ CycleFailed(call'))
              => /\ loop'.iter.res = Ok(0)
                 /\ loop'.iter.logged
                 /\ loop'.exit # "error"
                 /\ delay # 0 => (loop'.exit = "running" /\ pc' = "returned")
         ]_vars
    /\ [][ pc = "returned" => (pc' = "idle" /\ loop' = loop) ]_vars

\* the cycle pushed the status and could not write the state file; the
\* iteration returned Ok and the loop sleeps
C22_Witness ==
    /\ pc = "returned"
    /\ WriteFailed(call)
    /\ loop.iter.res = Ok(0)
    /\ loop.iter.logged
    /\ loop.exit = "running"

---------------------------------------------------------------------------
(* Shutdown of the service loop *)

\* the step is a request of shutdown
Requests == signal' # signal

\* the loop thread reads the flag in this step
ReadsFlag == pc = "returned" /\ sleeper.at = "test" /\ sleeper' # sleeper

---------------------------------------------------------------------------
(* Login *)

\* the step in which one login call runs from entry to return
LoggedIn(kind) == login.at = "login" /\ login'.at # "login" /\ login.base.kind = kind

\* the answer carries a bearer token / a user identifier
HasToken(a) == a.kind = "status" /\ a.code = 200 /\ a.token # -1
HasUserId(a) == a.kind = "status" /\ a.code = 200 /\ a.body.json /\ a.body.id.ty = "string"

\* C26: login with a username and password yields a logged session only when
\* the server's response carries both a bearer token and a user identifier;
\* when either is missing, or on a network failure, login returns an error
\* and no session.
C26_LoginNeedsTokenAndUserId ==
    [][ LoggedIn("credentials")
            => /\ login'.got.logged => (HasToken(login'.answer) /\ HasUserId(login'.answer))
               /\ ~(HasToken(login'.answer) /\ HasUserId(login'.answer))
                      => (~login'.res.ok /\ ~login'.got.logged)
      ]_vars

\* C27 as stated: login on a session built from a static pre-issued token is
\* a no-op success: it always yields a logged session carrying that same
\* token, with no exchange that can reject it.
C27_Original ==
    [][ LoggedIn("token")
            => /\ login'.res.ok
               /\ login'.got.logged
               /\ login'.got.s.token = login.base.token
      ]_vars

\* C27 amended: login on a session built from a static token sends one GET
\* /api/v4/users/me with that token as bearer.  It yields a logged session,
\* carrying that same token, the id received and no credentials, exactly when
\* the server answers with a success status and a JSON body whose id is a
\* string; on a transport failure, an error status, a body that is not JSON or
\* an id that is not a string it returns an error and no session.  (A session
\* object whose earlier login failed on the id has lost its URL and its
\* token: its next login fails before any request.)
C27_TokenLoginAsksForTheUser ==
    [][ LoggedIn("token")
            => LET a == login'.answer
                   good == login.base.base_uri # "" /\ HasUserId(a)
               IN
               /\ login'.res.ok <=> good
               /\ login'.got.logged <=> good
               /\ good => /\ login'.got.s.token = login.base.token
                          /\ login'.got.s.user_id = a.body.id.v
                          /\ login'.got.s.user = NoCred
                          /\ login'.got.s.password = NoCred
                          /\ session' = login'.got.s
               /\ login'.wire = IF login.base.base_uri # ""
                                 THEN <<Exchange("GET", "/api/v4/users/me", login.base.token, a)>>
                                 ELSE <<>>
      ]_vars

\* the static token 1 was presented, the server answered with the user u1,
\* and the logged session carries token 1
C27_Witness ==
    /\ login.at = "logged"
    /\ login.base.kind = "token"
    /\ login.got.logged
    /\ login.got.s.token = 1
    /\ login.got.s.user_id = "u1"
    /\ session = login.got.s

---------------------------------------------------------------------------
(* The forced update *)

\* C29: while the same known location is observed at every poll and polls
\* keep occurring, the engine never skips at a poll where more than 3600
\* seconds have passed since the stored timestamp: a push is attempted at the
\* first such poll, so the time between two push attempts for an unchanged
\* location (from the return of one to the start of the next) is bounded by
\* 3600 seconds plus one poll interval.
C29_ForcedUpdateBoundsTheGap ==
    /\ [][ Called
              => /\ Elapsed > 3600 => (call'.decision = "push" /\ Sends(call'.wire) >= 1)
                 /\ call'.decision = "push" => now - prev.at <= 3600 + delay
         ]_vars
    /\ [](pc = "idle" => now - prev.at <= 3600 + delay)

\* two pushes failed, the polls that followed skipped, and the first poll
\* more than 3600 seconds after the stored timestamp attempted a push
C29_Witness ==
    /\ pc = "returned"
    /\ call.decision = "push"
    /\ call.elapsed_sec > 3600
    /\ Sends(call.wire) >= 1
    /\ prev.how = "skip"
    /\ prev.at = now

---------------------------------------------------------------------------
(* The round trip through the state file *)

\* the step in which State::new loads the file
Loads == call.op # "new" /\ call'.op = "new"

\* C21: for every location r (Known(s) for any string s, the empty string
\* included), a successful set_location(r) followed by State::new on the same
\* cache returns a record whose location equals r and whose timestamp equals
\* the one written; after several set_location calls the loaded record is the
\* last one written.
C21_RoundTrip ==
    [][ (Loads /\ call.written.some)
            => /\ state'.location = call.written.state.location
               /\ state'.lastchange_timestamp = call.written.state.lastchange_timestamp
      ]_vars

\* a backslash followed by the letter n was recorded before 1970, after
\* another location, and State::new gave it back
C21_Witness ==
    /\ call.op = "new"
    /\ call.written.some
    /\ call.written.state.location = Known(<<"\\", "n">>)
    /\ call.written.state.lastchange_timestamp = -7
    /\ state = call.written.state
    /\ cache = FileText(to_string(state))

\* C34: with a static-token session, a 401 on the first send makes send_at
\* issue no login request and exactly one resend, which carries the same
\* token as the first send; what send_at returns is the outcome of that
\* resend.
C34_StaticTokenResendsOnce ==
    (/\ pc = "returned"
     /\ session.user = NoCred
     /\ session.password = NoCred
     /\ FirstRejected401(call))
        => /\ Logins(call.wire) = 0
           /\ Sends(call.wire) = 2
           /\ call.wire[2].token = call.wire[1].token
           /\ call.sres = OutcomeOf(call.wire[2].resp)

\* a static-token session: 401, then the resend with the same token is
\* answered 500, which is what send_at returns
C34_Witness ==
    /\ pc = "returned"
    /\ session.user = NoCred
    /\ FirstRejected401(call)
    /\ Len(call.wire) = 2
    /\ call.wire[2].token = call.wire[1].token
    /\ call.wire[2].resp = Http(500)
    /\ call.sres = Err("HTTPRequestError", 500)

\* the second exchange of the call c is a login that yielded no token: the
\* request failed, or the answer had no Token header
ReloginFailed(c) ==
    /\ Len(c.wire) >= 2
    /\ c.wire[2].method = "POST"
    /\ LoginFailed(c.wire[2])

\* C35: a relogin that fails (the request fails, or the answer has no Token
\* header) leaves the token, the user id, the base URI and the stored
\* credentials of the session exactly as they were before the call.
C35_FailedReloginLeavesSession ==
    [][ (Called /\ ReloginFailed(call'))
            => /\ session'.token = session.token
               /\ session'.user_id = session.user_id
               /\ session'.base_uri = session.base_uri
               /\ session'.user = session.user
               /\ session'.password = session.password
      ]_vars

\* a relogin answered 200 without a Token header: the login error is
\* returned and the session still holds the token of the rejected send
C35_Witness ==
    /\ pc = "returned"
    /\ ReloginFailed(call)
    /\ call.wire[2].resp = Http(200)
    /\ call.sres.err = "LoginError"
    /\ session.token = call.wire[1].token
    /\ session.user # NoCred

\* C38: when the clock shows less than the stored timestamp (it was moved
\* backwards), elapsed is taken as 0, so a known candidate equal to the stored
\* location is pushed and never skipped, for every poll interval.
C38_ClockBackwardsPushes ==
    [][ (/\ Called
         /\ now < state.lastchange_timestamp
         /\ call'.cand = state.location
         /\ call'.cand \in KnownLocations)
            => /\ call'.elapsed_sec = 0
               /\ call'.decision = "push"
      ]_vars

\* the record says 3600, the clock 121, the poll interval is the default: the
\* unchanged location was pushed, where an elapsed time of 3479 would be
\* inside the quiet window
C38_Witness ==
    /\ pc = "returned"
    /\ delay = 60
    /\ call.cand \in KnownLocations
    /\ call.same
    /\ call.decision = "push"
    /\ call.elapsed_sec = 0
    /\ ~call.sent
    /\ state.lastchange_timestamp = 3600
    /\ now = 121

\* C39: when 2*poll_interval >= 3600 the skip window is empty: every call
\* whose candidate is a known location pushes, whatever the elapsed time; and
\* when poll_interval is 0 an unchanged known location is skipped for every
\* elapsed time in 1..3600 and pushed at elapsed time 0.
C39_EmptyAndWidestSkipWindow ==
    [][ (Called /\ call'.cand \in KnownLocations)
            => /\ 2 * delay >= MAX_SECS_BEFORE_FORCE_UPDATE => call'.decision = "push"
               /\ (delay = 0 /\ call'.cand = state.location)
                    => /\ Elapsed \in 1..MAX_SECS_BEFORE_FORCE_UPDATE
                            => call'.decision = "skip"
                       /\ Elapsed = 0 => call'.decision = "push"
      ]_vars

\* poll interval 1800 and the location unchanged for exactly 3600 seconds:
\* pushed, since 3600 < 3600 does not hold
C39_Witness ==
    /\ pc = "returned"
    /\ delay = 1800
    /\ call.cand \in KnownLocations
    /\ call.same
    /\ call.elapsed_sec = MAX_SECS_BEFORE_FORCE_UPDATE
    /\ call.decision = "push"

---------------------------------------------------------------------------
(* create_session *)

\* the step in which one login call of create_session fails
LoginFails == login.at = "login" /\ login'.at = "failed"

\* C36: a login attempt that fails leaves the base URI and the token or the
\* credentials of the session builder unchanged, so each retry made by
\* create_session addresses the same server with the same secret as the
\* first attempt.
C36_FailedLoginLeavesBuilder ==
    [][ LoginFails
            => /\ login'.base.base_uri = login.base.base_uri
               /\ login'.base.token = login.base.token
               /\ login'.base.user = login.base.user
               /\ login'.base.password = login.base.password
      ]_vars

\* create_session has returned: a session, or the configuration error
Returned == login.at \in {"logged", "no user"}

\* C37: create_session never returns a login failure: it repeats login,
\* sleeping the poll delay after each failed attempt, and returns exactly when
\* one attempt succeeds, with the session of that attempt; once an attempt has
\* succeeded it is over (no further attempt, no sleep), and as long as the
\* attempts fail it does not return.  (The one error it returns is that of
\* the configuration, made before the first attempt.)
C37_CreateSessionReturnsOnSuccessOnly ==
    /\ [][ (login.at = "login" /\ login' # login)
              => /\ login'.at = "logged" <=> login'.res.ok
                 /\ login'.at = "failed" <=> ~login'.res.ok
                 /\ login'.res.ok => (login'.got.logged /\ session' = login'.got.s)
                 /\ ~login'.res.ok => session' = session
         ]_vars
    /\ [][ login.at = "failed"
              => (login'.at = "login" /\ now' = now + delay /\ session' = session) ]_vars
    /\ [][ ~Returned ]_vars
    /\ [](login.at = "logged" => (login.res.ok /\ login.got.logged /\ session = login.got.s))
    /\ [](login.at = "no user" => (login.wire = <<>> /\ ~login.res.ok
                                   /\ login.res.err = "Mattermost user is not defined"))

\* two attempts failed, the poll delay was slept after each, and the third
\* succeeded: create_session has returned its session
C37_Witness ==
    /\ login.at = "logged"
    /\ now = 2 * delay
    /\ login.res.ok
    /\ session = login.got.s
    /\ session.user = "alice"

----------------------------------------------------------------------------
(* process_one_iteration: the candidates *)

\* C33: update_status is never reached with a missing status payload and a
\* known candidate location: in every call made by process_one_iteration the
\* payload is absent only when the candidate is Unknown, so the unwrap of the
\* payload never panics.
C33_PayloadAbsentOnlyForUnknown ==
    /\ \A n \in DOMAIN loop.iter.updates :
        loop.iter.updates[n].status = "none" => loop.iter.updates[n].cand = Unknown
    /\ \A n \in DOMAIN loop.iter.updates : ~loop.iter.updates[n].panic

\* an off time without a status for it: no call; and a call without payload
\* for Unknown
C33_Witness ==
    /\ pc = "returned"
    /\ Len(loop.iter.updates) = 1
    /\ loop.iter.updates[1].cand = Unknown
    /\ loop.iter.updates[1].status = "none"
    /\ "" \notin status_dict
    /\ "home" \in status_dict

\* the step is one call of process_one_iteration
Iterates == pc = "idle" /\ pc' # "idle"

\* C31: during on-duty time the off-duty pseudo-location Known("") is never
\* selected as candidate, whatever SSIDs are visible; during off-duty time
\* the only candidate is Known(""), the wifi is not scanned, and when no
\* status is configured for Known("") no custom status is sent and the
\* record is unchanged.
C31_OffTimeLocationOnlyInOffTime ==
    [][Iterates =>
        /\ ~loop'.iter.off_time =>
              \A n \in DOMAIN loop'.iter.updates : loop'.iter.updates[n].cand # Known("")
        /\ loop'.iter.off_time =>
              /\ \A n \in DOMAIN loop'.iter.updates : loop'.iter.updates[n].cand = Known("")
              /\ ~loop'.iter.scanned
              /\ loop'.iter.res.ok
        /\ (loop'.iter.off_time /\ "" \notin status_dict) =>
              /\ loop'.iter.updates = <<>>
              /\ state' = state
              /\ cache' = cache]_vars

\* home was recorded on duty; then an off time for which no status is
\* configured leaves the record as it is
C31_Witness ==
    /\ pc = "returned"
    /\ loop.iter.off_time
    /\ "" \notin status_dict
    /\ loop.iter.updates = <<>>
    /\ ~loop.iter.scanned
    /\ state.location = Known("home")

\* C32: one call of process_one_iteration calls update_status at most once,
\* so at most one custom-status push (with its at most one relogin and one
\* resend) occurs per poll cycle, even when several configured SSID
\* fragments are visible at once.
C32_OneUpdatePerIteration ==
    /\ Len(loop.iter.updates) <= 1
    /\ \A n \in DOMAIN loop.iter.updates :
        /\ loop.iter.updates[n].sends <= 2
        /\ loop.iter.updates[n].logins <= 1

\* home and work are both configured and both in sight: one call, with a
\* push, a relogin and a resend
C32_Witness ==
    /\ pc = "returned"
    /\ {"home", "work"} \subseteq status_dict
    /\ loop.iter.scanned
    /\ "homework" \in loop.iter.scan.ssids
    /\ Len(loop.iter.updates) = 1
    /\ loop.iter.updates[1].cand \in {Known("home"), Known("work")}
    /\ loop.iter.updates[1].sends = 2
    /\ loop.iter.updates[1].logins = 1

----------------------------------------------------------------------------
(* micscan: update_dnd_status over the poll cycles *)

\* the step is a poll cycle that reaches update_dnd_status
ReachesMic == Iterates /\ loop'.iter.res.ok

\* C40: in update_dnd_status, a Dnd status is sent in every poll cycle in
\* which a watched application holds the microphone, and an Online status is
\* sent in a cycle if and only if no watched application holds it and the
\* previous mic observation had found one; over consecutive cycles with no
\* watched application Online is sent at most once, and with the mic never
\* used no status is ever sent.
C40_DndWhileWatchedOnlineOnce ==
    /\ [][ReachesMic =>
            /\ loop'.iter.mic = "watched" => loop'.iter.dnd = "dnd"
            /\ loop'.iter.dnd = "online"
                  <=> (loop'.iter.mic = "none" /\ loop.iter.seen = "watched")
            /\ (loop.iter.dnd = "online" /\ loop'.iter.mic # "watched")
                  => loop'.iter.dnd = "none"
            /\ (loop.iter.seen = "none" /\ loop'.iter.mic # "watched")
                  => loop'.iter.dnd # "online"]_vars
    /\ [](~loop.iter.ever => loop.iter.dnd = "none")

\* a watched application was seen, then none (Online was sent), and in this
\* later cycle without one nothing is sent
C40_Witness ==
    /\ pc = "returned"
    /\ loop.iter.ever
    /\ loop.iter.mic = "none"
    /\ loop.iter.seen = "none"
    /\ loop.iter.dnd = "none"
    /\ ~loop.iter.used

=============================================================================
